---- MODULE Spec2Model ----
(***************************************************************************)
(* Model of the paysheet aggregation core of iTech_Accrual_Updater:        *)
(*   - admin_fee_module_v18b.py : rate timeline, start-date resolution,    *)
(*     full-month override, section row walk                               *)
(*   - admin_fee_module.py (v17b): timeline around the header and the      *)
(*     (year, month) resolver                                              *)
(*   - accrual_updater.py : OT-rate billing walk, month filters, OT suffix *)
(* Dates are the source's (month, day, year) tuples.  Cell texts that the  *)
(* code matches with regular expressions are sequences of one-character    *)
(* strings.  Amounts are whole numbers.                                    *)
(***************************************************************************)
EXTENDS Integers, Sequences, FiniteSets, TLC

\* ------------------------------------------------------------------ bounds
MaxLabels == 2
MaxRows == 1

\* ------------------------------------------------------- generic helpers
SeqsUpTo(S, n) == UNION {[1..k -> S] : k \in 0..n}

\* s with c put after its first k elements
InsertAt(s, k, c) == SubSeq(s, 1, k) \o <<c>> \o SubSeq(s, k + 1, Len(s))

\* Python tuple comparison a <= b on 3-tuples
TupleLeq(a, b) ==
    \/ a[1] < b[1]
    \/ a[1] = b[1] /\ a[2] < b[2]
    \/ a[1] = b[1] /\ a[2] = b[2] /\ a[3] <= b[3]

\* list.sort(key=...) : stable insertion of e after every element whose key is <= e's key
RECURSIVE InsertByKey(_, _)
InsertByKey(e, s) ==
    IF s = <<>> THEN <<e>>
    ELSE IF TupleLeq(s[1].k, e.k) THEN <<s[1]>> \o InsertByKey(e, Tail(s))
    ELSE <<e>> \o s

RECURSIVE StableSort(_)
StableSort(s) ==
    IF s = <<>> THEN <<>>
    ELSE InsertByKey(s[Len(s)], StableSort(SubSeq(s, 1, Len(s) - 1)))

\* ---------------------------------------------------------- sheet contents
\* The cells of the 10-row search window of a section header that carry an
\* admin-fee label, in scan order (row by row, column by column).  rate is
\* safe_float of the cell to the right of the label.
NoDate == <<0, 0, 0>>

EffCell(m, d, y, rt) == [kind |-> "eff", date |-> <<m, d, y>>, rate |-> rt]
StaticCell(rt) == [kind |-> "static", date |-> NoDate, rate |-> rt]

LabelCells ==
    { EffCell(6, 15, 2024, 60), EffCell(12, 1, 2024, 70), EffCell(3, 1, 2025, 80),
      EffCell(6, 15, 2025, 90), EffCell(6, 20, 2025, 100), EffCell(6, 1, 2025, 0),
      StaticCell(50) }

\* The rows under the header: the period cell in the header's column, parsed,
\* and safe_float of the cell to its right.
RangeRow(sm, sd, em, ed, y, h) ==
    [kind |-> "range", start |-> <<sm, sd, y>>, end |-> <<em, ed, y>>, val |-> h]
SingleRow(m, d, y, a) ==
    [kind |-> "single", start |-> <<m, d, y>>, end |-> <<m, d, y>>, val |-> a]

PeriodRows ==
    { RangeRow(12, 8, 12, 14, 2024, 40), RangeRow(12, 1, 12, 31, 2024, 160),
      RangeRow(6, 1, 6, 30, 2025, 160), RangeRow(6, 1, 6, 7, 2025, 40),
      RangeRow(6, 16, 6, 22, 2025, 45), RangeRow(6, 1, 7, 28, 2025, 40),
      RangeRow(6, 1, 6, 30, 2024, 160), RangeRow(6, 16, 6, 22, 2025, 0),
      SingleRow(6, 18, 2025, 500) }

Targets == { <<6, 2025>>, <<12, 2024>>, <<6, 2024>> }

\* ------------------------------------------------- admin_fee_module_v18b
VARIABLES
    gen,              \* which generation of the admin-fee module runs: "v18b" or "v17b"
    window,           \* label cells of the header's search window, scan order
    rows,             \* rows hp_row+1 .. section_end-1 of the section
    month, year,      \* target month and year
    pc,               \* position in calculate_admin_fee_for_paysheet
    admin_fees_list,  \* the timeline: sequence of <<date, rate>>
    static_rate,
    r,                \* number of rows already walked
    rate,             \* the local `rate` of the last walked row (0: none applied)
    section_hours, section_fee, section_rate,
    total_hours, total_admin_fee, last_rate,
    admin_fee_rate,   \* v17b: the one rate resolved for the section
    branch            \* which branch of the row body the last walked row took

feeVars == <<gen, window, rows, month, year, pc, admin_fees_list, static_rate, r, rate,
             admin_fee_rate, branch,
             section_hours, section_fee, section_rate, total_hours, total_admin_fee,
             last_rate>>

\* sort key of v18b: (year, month, day)
DateKey(d) == <<d[3], d[1], d[2]>>

\* every dated label gives an entry, whatever the number to its right
EffKeyed_AnyRate(w) ==
    LET sel == SelectSeq(w, LAMBDA c : c.kind = "eff" /\ c.date # NoDate)
    IN  [i \in 1..Len(sel) |-> [k |-> DateKey(sel[i].date), e |-> <<sel[i].date, sel[i].rate>>]]

\* find_admin_fee_eff: every "admin fee eff" cell with a parsed date and rate > 0,
\* sorted by (year, month, day)
EffKeyed(w) ==
    LET sel == SelectSeq(w, LAMBDA c : c.kind = "eff" /\ c.date # NoDate /\ c.rate > 0)
    IN  [i \in 1..Len(sel) |-> [k |-> DateKey(sel[i].date), e |-> <<sel[i].date, sel[i].rate>>]]

Entries(keyed) == [i \in 1..Len(keyed) |-> keyed[i].e]

find_admin_fee_eff(w) == Entries(StableSort(EffKeyed(w)))

\* find_static_admin_fee: the first bare "admin fee" cell with rate > 0, else 0
find_static_admin_fee(w) ==
    LET sel == SelectSeq(w, LAMBDA c : c.kind = "static" /\ c.rate > 0)
    IN  IF sel = <<>> THEN 0 ELSE sel[1].rate

\* the static rate is put in front of the dated entries as effective 1/1/2025
StaticSentinel == <<1, 1, 2025>>

Timeline18(w) ==
    LET effs == find_admin_fee_eff(w)
        st == find_static_admin_fee(w)
    IN  IF effs # <<>> /\ st > 0 THEN <<<<StaticSentinel, st>>>> \o effs ELSE effs

\* get_rate_for_date: walk the list in order, keep the last rate whose effective
\* date is <= the period date, stop at the first entry that is later
RECURSIVE RateScan(_, _, _, _)
RateScan(fees, i, pd, acc) ==
    IF i > Len(fees) THEN acc
    ELSE IF TupleLeq(DateKey(fees[i][1]), DateKey(pd))
         THEN RateScan(fees, i + 1, pd, fees[i][2])
         ELSE acc

get_rate_for_date(fees, pd) == RateScan(fees, 1, pd, 0)

is_full_month_period(sd, ed) ==
    IF sd[1] # ed[1] THEN FALSE
    ELSE IF sd[2] # 1 THEN FALSE
    ELSE IF ed[2] < 28 THEN FALSE
    ELSE TRUE

has_mid_month_eff(fees, m) ==
    \E i \in 1..Len(fees) : fees[i][1][1] = m /\ fees[i][1][2] > 1

RECURSIVE FullMonthScan(_, _, _, _)
FullMonthScan(fees, i, m, latest) ==
    IF i > Len(fees) THEN latest
    ELSE IF fees[i][1][1] = m /\ fees[i][1][2] > 1
         THEN FullMonthScan(fees, i + 1, m, fees[i][2])
         ELSE FullMonthScan(fees, i + 1, m, latest)

get_full_month_eff_rate(fees, m) == FullMonthScan(fees, 1, m, 0)

\* The local `rate` of one row of the dated-timeline walk (lines 210-262);
\* 0 when the row is skipped before a rate is computed.
RowInTarget(row, m, y) == row.start[1] = m /\ row.start[3] = y

\* the branch of lines 210-262 that the row takes
Branch18(fees, row, m, y) ==
    IF ~RowInTarget(row, m, y) \/ row.val <= 0 THEN "skip"
    ELSE IF row.kind = "range"
         THEN IF is_full_month_period(row.start, row.end) /\ has_mid_month_eff(fees, m)
              THEN "full_month"
              ELSE "start_date"
         ELSE "single"

\* lines 228, 253 only: the rate of the period's first day, whatever the span
RowRate18_StartDateOnly(fees, row, m, y) ==
    IF Branch18(fees, row, m, y) = "skip" THEN 0
    ELSE get_rate_for_date(fees, row.start)

RowRate18(fees, row, m, y) ==
    IF Branch18(fees, row, m, y) = "skip" THEN 0
    ELSE IF Branch18(fees, row, m, y) = "full_month"
         THEN get_full_month_eff_rate(fees, m)
         ELSE get_rate_for_date(fees, row.start)

\* what the row adds to (section_hours, section_fee)
RowHours18(fees, row, m, y) ==
    IF RowRate18(fees, row, m, y) <= 0 THEN 0
    ELSE IF row.kind = "range" THEN row.val ELSE 1

RowFee18(fees, row, m, y) ==
    IF RowRate18(fees, row, m, y) <= 0 THEN 0
    ELSE IF row.kind = "range" THEN row.val * RowRate18(fees, row, m, y) ELSE row.val

\* ------------------------------------------------ admin_fee_module (v17b)
\* find_all_admin_fees_around_header: dated and static labels in scan order (a
\* static label is stored with date (0, 0, 0)), sorted by (year, month), statics first
AllKeyed(w) ==
    LET sel == SelectSeq(w, LAMBDA c :
                   /\ c.rate > 0
                   /\ \/ c.kind = "eff" /\ c.date # NoDate
                      \/ c.kind = "static")
    IN  [i \in 1..Len(sel) |->
            [k |-> IF sel[i].date[3] > 0 THEN <<sel[i].date[3], sel[i].date[1], 0>>
                   ELSE <<0, 0, 0>>,
             e |-> <<sel[i].date, sel[i].rate>>]]

find_all_admin_fees_around_header(w) == Entries(StableSort(AllKeyed(w)))

\* get_applicable_admin_fee: latest dated entry whose (year, month) <= the target's,
\* else the static rate
RECURSIVE ApplicableScan(_, _, _, _, _, _)
ApplicableScan(fees, i, tm, ty, applicable, static) ==
    IF i > Len(fees) THEN <<applicable, static>>
    ELSE IF fees[i][1][3] = 0
         THEN ApplicableScan(fees, i + 1, tm, ty, applicable, fees[i][2])
         ELSE IF TupleLeq(<<fees[i][1][3], fees[i][1][1], 0>>, <<ty, tm, 0>>)
              THEN ApplicableScan(fees, i + 1, tm, ty, fees[i][2], static)
              ELSE <<applicable, static>>

get_applicable_admin_fee(fees, tm, ty) ==
    LET res == ApplicableScan(fees, 1, tm, ty, 0, 0)
    IN  IF res[1] > 0 THEN res[1] ELSE res[2]

\* --------------------------------- calculate_admin_fee_for_paysheet, one section
FeeInit ==
    /\ gen \in {"v18b", "v17b"}
    /\ window \in SeqsUpTo(LabelCells, MaxLabels)
    /\ rows \in SeqsUpTo(PeriodRows, MaxRows)
    /\ \E t \in Targets : month = t[1] /\ year = t[2]
    /\ pc = "start"
    /\ admin_fees_list = <<>>
    /\ static_rate = 0
    /\ admin_fee_rate = 0
    /\ r = 0
    /\ rate = 0
    /\ branch = "none"
    /\ section_hours = 0 /\ section_fee = 0 /\ section_rate = 0
    /\ total_hours = 0 /\ total_admin_fee = 0 /\ last_rate = 0

\* v18b lines 177-187, 272: build the timeline and choose the walk
BuildTimeline ==
    /\ gen = "v18b" /\ pc = "start"
    /\ admin_fees_list' = Timeline18(window)
    /\ static_rate' = find_static_admin_fee(window)
    /\ pc' = IF Timeline18(window) # <<>> THEN "eff_walk"
             ELSE IF find_static_admin_fee(window) > 0 THEN "static_walk"
             ELSE "done"
    /\ UNCHANGED <<gen, window, rows, month, year, r, rate, branch, admin_fee_rate,
                   section_hours, section_fee, section_rate, total_hours,
                   total_admin_fee, last_rate>>

\* v18b lines 196-262: one row of a section that has dated entries
EffRow ==
    /\ pc = "eff_walk" /\ r < Len(rows)
    /\ LET row == rows[r + 1]
           rt == RowRate18(admin_fees_list, row, month, year)
       IN  /\ rate' = rt
           /\ branch' = Branch18(admin_fees_list, row, month, year)
           /\ section_hours' = section_hours + RowHours18(admin_fees_list, row, month, year)
           /\ section_fee' = section_fee + RowFee18(admin_fees_list, row, month, year)
           /\ section_rate' = IF rt > 0 THEN rt ELSE section_rate
    /\ r' = r + 1
    /\ UNCHANGED <<gen, window, rows, month, year, pc, admin_fees_list, static_rate,
                   admin_fee_rate, total_hours, total_admin_fee, last_rate>>

\* v18b lines 275-291: one row of a section that has only a static rate
StaticRow ==
    /\ pc = "static_walk" /\ r < Len(rows)
    /\ LET row == rows[r + 1]
           counts == row.kind = "range" /\ RowInTarget(row, month, year) /\ row.val > 0
       IN  /\ rate' = IF counts THEN static_rate ELSE 0
           /\ branch' = IF counts THEN "static" ELSE "skip"
           /\ section_hours' = IF counts THEN section_hours + row.val ELSE section_hours
    /\ r' = r + 1
    /\ UNCHANGED <<gen, window, rows, month, year, pc, admin_fees_list, static_rate,
                   admin_fee_rate, section_fee, section_rate, total_hours,
                   total_admin_fee, last_rate>>

\* v18b lines 264-270 and 293-297: add the section to the totals
EndSection ==
    /\ pc \in {"eff_walk", "static_walk"} /\ r = Len(rows)
    /\ IF section_hours > 0
       THEN /\ total_hours' = total_hours + section_hours
            /\ total_admin_fee' = total_admin_fee +
                   (IF pc = "eff_walk" THEN section_fee ELSE section_hours * static_rate)
            /\ last_rate' = IF pc = "eff_walk" THEN section_rate ELSE static_rate
       ELSE UNCHANGED <<total_hours, total_admin_fee, last_rate>>
    /\ section_fee' = IF pc = "static_walk" /\ section_hours > 0
                      THEN section_hours * static_rate ELSE section_fee
    /\ pc' = "done"
    /\ UNCHANGED <<gen, window, rows, month, year, admin_fees_list, static_rate,
                   admin_fee_rate, r, rate, branch, section_hours, section_rate>>

\* v17b lines 136-142: timeline around the header and the one rate of the section
BuildTimeline17 ==
    /\ gen = "v17b" /\ pc = "start"
    /\ admin_fees_list' = find_all_admin_fees_around_header(window)
    /\ admin_fee_rate' =
           get_applicable_admin_fee(find_all_admin_fees_around_header(window), month, year)
    /\ pc' = IF find_all_admin_fees_around_header(window) = <<>> THEN "done"
             ELSE IF get_applicable_admin_fee(
                         find_all_admin_fees_around_header(window), month, year) = 0
                  THEN "done"
                  ELSE "walk17"
    /\ UNCHANGED <<gen, window, rows, month, year, static_rate, r, rate, branch,
                   section_hours, section_fee, section_rate, total_hours,
                   total_admin_fee, last_rate>>

\* v17b lines 149-168: one row; the start month/day and the 4-digit year of the label
Row17 ==
    /\ pc = "walk17" /\ r < Len(rows)
    /\ LET row == rows[r + 1]
           counts == RowInTarget(row, month, year) /\ row.val > 0
       IN  /\ rate' = IF counts THEN admin_fee_rate ELSE 0
           /\ branch' = IF counts THEN "v17" ELSE "skip"
           /\ section_hours' = IF counts THEN section_hours + row.val ELSE section_hours
           /\ section_fee' = IF counts THEN section_fee + row.val * admin_fee_rate
                             ELSE section_fee
    /\ r' = r + 1
    /\ UNCHANGED <<gen, window, rows, month, year, pc, admin_fees_list, static_rate,
                   admin_fee_rate, section_rate, total_hours, total_admin_fee, last_rate>>

\* v17b lines 170-173
EndSection17 ==
    /\ pc = "walk17" /\ r = Len(rows)
    /\ IF section_hours > 0
       THEN /\ total_hours' = total_hours + section_hours
            /\ total_admin_fee' = total_admin_fee + section_fee
            /\ last_rate' = admin_fee_rate
       ELSE UNCHANGED <<total_hours, total_admin_fee, last_rate>>
    /\ pc' = "done"
    /\ UNCHANGED <<gen, window, rows, month, year, admin_fees_list, static_rate,
                   admin_fee_rate, r, rate, branch, section_hours, section_fee,
                   section_rate>>

\* the admin-fee call is not running
FeeOff ==
    /\ gen = "none" /\ window = <<>> /\ rows = <<>>
    /\ pc = "idle" /\ admin_fees_list = <<>> /\ static_rate = 0 /\ admin_fee_rate = 0
    /\ r = 0 /\ rate = 0 /\ branch = "none"
    /\ section_hours = 0 /\ section_fee = 0 /\ section_rate = 0
    /\ total_hours = 0 /\ total_admin_fee = 0 /\ last_rate = 0

\* ------------------------------------------------------------ cell texts
\* A text is a sequence of one-character strings.
DigitChars == <<"0", "1", "2", "3", "4", "5", "6", "7", "8", "9">>
LowerLetters == <<"a", "b", "c", "d", "e", "f", "g", "h", "i", "j", "k", "l", "m",
                  "n", "o", "p", "q", "r", "s", "t", "u", "v", "w", "x", "y", "z">>
UpperLetters == <<"A", "B", "C", "D", "E", "F", "G", "H", "I", "J", "K", "L", "M",
                  "N", "O", "P", "Q", "R", "S", "T", "U", "V", "W", "X", "Y", "Z">>

IsDigit(c) == \E i \in 1..10 : DigitChars[i] = c
DigitVal(c) == (CHOOSE i \in 1..10 : DigitChars[i] = c) - 1
IsSpace(c) == c \in {" ", "\t", "\n"}
IsLetter(c) == \E i \in 1..26 : LowerLetters[i] = c \/ UpperLetters[i] = c
\* \w of the regular expressions
IsWord(c) == IsDigit(c) \/ IsLetter(c) \/ c = "_"

UpperChar(c) ==
    IF \E i \in 1..26 : LowerLetters[i] = c
    THEN UpperLetters[CHOOSE i \in 1..26 : LowerLetters[i] = c] ELSE c
LowerChar(c) ==
    IF \E i \in 1..26 : UpperLetters[i] = c
    THEN LowerLetters[CHOOSE i \in 1..26 : UpperLetters[i] = c] ELSE c

\* str.upper(), str.lower(), str.strip()
UpperStr(s) == [i \in 1..Len(s) |-> UpperChar(s[i])]
LowerStr(s) == [i \in 1..Len(s) |-> LowerChar(s[i])]

RECURSIVE LStrip(_)
LStrip(s) == IF s # <<>> /\ IsSpace(s[1]) THEN LStrip(Tail(s)) ELSE s
RECURSIVE RStrip(_)
RStrip(s) ==
    IF s # <<>> /\ IsSpace(s[Len(s)]) THEN RStrip(SubSeq(s, 1, Len(s) - 1)) ELSE s
Strip(s) == RStrip(LStrip(s))

\* sub occurs in s at position i
HasAt(s, i, sub) ==
    /\ i >= 1 /\ i + Len(sub) - 1 <= Len(s)
    /\ \A k \in 1..Len(sub) : s[i + k - 1] = sub[k]
\* Python's `sub in s`
Contains(s, sub) == \E i \in 1..(Len(s) + 1) : HasAt(s, i, sub)
EndsWith(s, sub) == Len(sub) <= Len(s) /\ HasAt(s, Len(s) - Len(sub) + 1, sub)
AllSpace(s, i, j) == \A k \in i..j : IsSpace(s[k])

\* f"{n}", f"{n:02d}" and a 4-digit year
Dec(n) == IF n < 10 THEN <<DigitChars[n + 1]>>
          ELSE <<DigitChars[(n \div 10) + 1], DigitChars[(n % 10) + 1]>>
Dec2(n) == <<DigitChars[(n \div 10) + 1], DigitChars[(n % 10) + 1]>>
Dec4(n) == <<DigitChars[(n \div 1000) + 1], DigitChars[((n \div 100) % 10) + 1],
             DigitChars[((n \div 10) % 10) + 1], DigitChars[(n % 10) + 1]>>

\* ------------------------------------------- accrual_updater.py: OT suffix
\* re.search(r'-\s*OT\s*$', u)
MatchHyphenOT(u) ==
    \E i \in 1..Len(u), j \in 1..Len(u) :
        /\ u[i] = "-" /\ i < j /\ AllSpace(u, i + 1, j - 1)
        /\ HasAt(u, j, <<"O", "T">>)
        /\ AllSpace(u, j + 2, Len(u))

\* re.search(r'\s+OT\s*$', u)
MatchSpaceOT(u) ==
    \E j \in 2..Len(u) :
        /\ IsSpace(u[j - 1])
        /\ HasAt(u, j, <<"O", "T">>)
        /\ AllSpace(u, j + 2, Len(u))

\* an OT at the end of the text counts whatever comes before it
detect_ot_suffix_AnyOT(period_str) ==
    IF period_str = <<>> THEN FALSE
    ELSE EndsWith(Strip(UpperStr(period_str)), <<"O", "T">>)

detect_ot_suffix(period_str) ==
    IF period_str = <<>> THEN FALSE
    ELSE LET period_upper == Strip(UpperStr(period_str))
         IN  IF MatchHyphenOT(period_upper) THEN TRUE
             ELSE IF EndsWith(period_upper, <<"-", "O", "T">>) THEN TRUE
             ELSE IF MatchSpaceOT(period_upper) THEN TRUE
             ELSE FALSE

\* ------------------------------------ accrual_updater.py: the month filters
Separators == {"/", "-"}

\* the month anywhere in the text: re.search(rf'0?{month}[/-]', period_str)
OtMonthFilter_Unanchored(period_str, m) ==
    \E i \in 1..Len(period_str) :
        /\ HasAt(period_str, i, Dec(m))
        /\ i + Len(Dec(m)) <= Len(period_str)
        /\ period_str[i + Len(Dec(m))] \in Separators

\* calculate_billed_with_ot: re.search(rf'^0?{month}[/-]', period_str)
OtMonthFilter(period_str, m) ==
    \E z \in {0, 1} :
        /\ z = 1 => HasAt(period_str, 1, <<"0">>)
        /\ HasAt(period_str, z + 1, Dec(m))
        /\ z + Len(Dec(m)) + 1 <= Len(period_str)
        /\ period_str[z + Len(Dec(m)) + 1] \in Separators

\* parse_paysheet: re.sub(r'[A-Za-z]+', '', str(s)), then the first (\d{1,2})
RemoveLetters(s) == SelectSeq(s, LAMBDA c : ~IsLetter(c))

NoToken == 0 - 1

first_numeric_token_from_text(s) ==
    LET txt == RemoveLetters(s)
        pos == { i \in 1..Len(txt) : IsDigit(txt[i]) }
    IN  IF pos = {} THEN NoToken
        ELSE LET i == CHOOSE k \in pos : \A q \in pos : k <= q
             IN  IF i < Len(txt) /\ IsDigit(txt[i + 1])
                 THEN 10 * DigitVal(txt[i]) + DigitVal(txt[i + 1])
                 ELSE DigitVal(txt[i])

\* parse_paysheet: start_re = ^\s*(?:{month:02d}|{month})(?:[/-]|\b)
StartsWithMonth(txt_raw, m) ==
    \E lead \in 0..Len(txt_raw), alt \in {Dec2(m), Dec(m)} :
        /\ AllSpace(txt_raw, 1, lead)
        /\ HasAt(txt_raw, lead + 1, alt)
        /\ LET nxt == lead + Len(alt) + 1
           IN  \/ nxt > Len(txt_raw)
               \/ txt_raw[nxt] \in Separators
               \/ ~IsWord(txt_raw[nxt])

\* parse_paysheet lines 285-292: the row passes the month filter
BcMonthFilter(txt_raw, m) ==
    /\ first_numeric_token_from_text(txt_raw) = m
    /\ \/ Contains(txt_raw, <<"-">>)
       \/ StartsWithMonth(txt_raw, m)

\* --------------------------------------- one label through the text filters
VARIABLES
    lbl,        \* the text of a period cell
    tm,         \* the target month
    lpc,        \* "input", "filtered", "done"
    ot_match,   \* the month filter of calculate_billed_with_ot let the row through
    bc_match,   \* the month filter of parse_paysheet let the row through
    is_ot       \* detect_ot_suffix

labelVars == <<lbl, tm, lpc, ot_match, bc_match, is_ot>>

MaxLabelLen == 4

DateAlphabet == {"0", "1", "6", "/", "-", " "}
OtAlphabet == {"-", " ", "O", "T", "H", "o"}

\* "MM/DD-MM/DD/YYYY", the shape of a work-period label
FmtRange(m1, d1, m2, d2, y) ==
    Dec2(m1) \o <<"/">> \o Dec2(d1) \o <<"-">> \o Dec2(m2) \o <<"/">> \o Dec2(d2)
        \o <<"/">> \o Dec4(y)

Suffixes ==
    { <<>>, <<"-", "O", "T">>, <<" ", "O", "T">>, <<"-", "o", "t">>,
      <<" ", "-", " ", "O", "T">>, <<"-", "O", "T", "H", "E", "R">> }

StructuredLabels ==
    { FmtRange(m1, d1, m2, d2, 2025) \o suf :
        m1 \in {1, 6}, d1 \in {1, 6}, m2 \in {1, 6}, d2 \in {7, 12}, suf \in Suffixes }

Labels ==
    SeqsUpTo(DateAlphabet, MaxLabelLen) \cup SeqsUpTo(OtAlphabet, MaxLabelLen)
        \cup StructuredLabels

\* MONTHS has twelve names; the target month is an index 1..12 into it
NumMonths == 12

LabelInit ==
    /\ lbl \in Labels
    /\ tm \in 1..NumMonths
    /\ lpc = "input"
    /\ ot_match = FALSE /\ bc_match = FALSE /\ is_ot = FALSE

\* the two month filters, each on the text as its caller prepares it
ApplyMonthFilters ==
    /\ lpc = "input"
    /\ ot_match' = OtMonthFilter(LowerStr(Strip(lbl)), tm)
    /\ bc_match' = BcMonthFilter(Strip(lbl), tm)
    /\ lpc' = "filtered"
    /\ UNCHANGED <<lbl, tm, is_ot>>

ApplyDetectOt ==
    /\ lpc = "filtered"
    /\ is_ot' = detect_ot_suffix(lbl)
    /\ lpc' = "done"
    /\ UNCHANGED <<lbl, tm, ot_match, bc_match>>

FeeIdle == FeeOff /\ month = 0 /\ year = 0

LabelIdle ==
    /\ lbl = <<>> /\ tm = 0 /\ lpc = "idle"
    /\ ot_match = FALSE /\ bc_match = FALSE /\ is_ot = FALSE

\* ------------------------------- accrual_updater.py: calculate_billed_with_ot
VARIABLES
    readable,      \* the path ends in .xls, xlrd is there and the workbook opens
    rate_cells,    \* the "total rate" / "ot rate" labels of the first 20 rows, scan order
    sheet,         \* per row: the text in the header's column and the number right of it
    hdr_col,       \* the column of the first header cell of the sheet
    bpc,           \* position in calculate_billed_with_ot
    total_rate, ot_rate,
    payment_col,
    bill_row,      \* the loop variable `row`
    total_billed

billVars == <<readable, rate_cells, sheet, hdr_col, bpc, total_rate, ot_rate, payment_col,
              bill_row, total_billed>>

MaxSheetRows == 2
MaxCol == 2

TxtTotal == <<"t", "o", "t", "a", "l">>
TxtHours == <<"h", "o", "u", "r", "s">>
TxtPayment == <<"p", "a", "y", "m", "e", "n", "t">>
TxtDeductions == <<"d", "e", "d", "u", "c", "t", "i", "o", "n", "s">>
TxtWorkPeriod == <<"w", "o", "r", "k", " ", "p", "e", "r", "i", "o", "d">>
TxtHoursPayment == <<"h", "o", "u", "r", "s", " ", "&", " ", "p", "a", "y", "m", "e", "n", "t">>

NoPeriod == <<0, 0>>

\* a row: its label, the hours right of it, and the (month, year) its period starts in
BillRow(t, h, p) == [txt |-> t, hrs |-> h, period |-> p]

HeaderRow == BillRow(<<"W", "o", "r", "k", " ", "P", "e", "r", "i", "o", "d">>, 0, NoPeriod)

BillRows ==
    { BillRow(FmtRange(6, 1, 6, 7, 2025), 40, <<6, 2025>>),
      BillRow(FmtRange(6, 8, 6, 14, 2025) \o <<"-", "O", "T">>, 10, <<6, 2025>>),
      BillRow(FmtRange(6, 15, 6, 21, 2025) \o <<" ", "o", "t">>, 0, <<6, 2025>>),
      BillRow(FmtRange(6, 1, 6, 7, 2024), 40, <<6, 2024>>),
      BillRow(FmtRange(1, 6, 1, 12, 2025), 40, <<1, 2025>>),
      BillRow(<<"T", "o", "t", "a", "l">>, 50, NoPeriod),
      BillRow(<<>>, 0, NoPeriod) }

RateCell(l, v) == [label |-> l, val |-> v]

RateCellSeqs ==
    { <<>>,
      <<RateCell("total rate", 50)>>,
      <<RateCell("total rate", 50), RateCell("ot rate", 75)>>,
      <<RateCell("ot rate", 75), RateCell("total rate", 50)>>,
      <<RateCell("total rate", 50), RateCell("ot rate", 75), RateCell("ot rate", 0)>> }

BillTargets == { <<6, 2025>>, <<1, 2025>> }

\* find_total_rate_and_ot_rate_in_sheet: the last label of each kind gives the rate
RECURSIVE LastRate(_, _, _)
LastRate(cells, l, acc) ==
    IF cells = <<>> THEN acc
    ELSE LastRate(Tail(cells), l, IF cells[1].label = l THEN cells[1].val ELSE acc)

find_total_rate_and_ot_rate_in_sheet(cells) ==
    <<LastRate(cells, "total rate", 0), LastRate(cells, "ot rate", 0)>>

\* lines 846-857: the first row whose cell is 'hours & payment' or 'work period'
IsHeaderText(t) == LowerStr(Strip(t)) \in {TxtHoursPayment, TxtWorkPeriod}

HeaderRows(sh) == { i \in 1..Len(sh) : IsHeaderText(sh[i].txt) }

\* lines 876: the label of a heading or totals row
IsSkipLabel(period_str) ==
    \E x \in {TxtTotal, TxtHours, TxtPayment, TxtDeductions} : Contains(period_str, x)

\* lines 868-896: the row is billed
Billable(cell, m) ==
    LET period_str == LowerStr(Strip(cell.txt))
    IN  /\ cell.txt # <<>>
        /\ ~IsSkipLabel(period_str)
        /\ OtMonthFilter(period_str, m)
        /\ cell.hrs > 0

\* lines 899-901
RowAmount(cell, tr, otr) ==
    LET period_str == LowerStr(Strip(cell.txt))
        is_ot_row == detect_ot_suffix(period_str)
        rt == IF is_ot_row THEN otr ELSE tr
    IN  cell.hrs * rt

BillInit ==
    /\ \E t \in BillTargets : month = t[1] /\ year = t[2]
    /\ readable \in BOOLEAN
    /\ IF readable
       THEN /\ rate_cells \in RateCellSeqs
            /\ hdr_col \in 0..MaxCol
            /\ \E body \in SeqsUpTo(BillRows, MaxSheetRows) :
                  \/ sheet = body
                  \/ \E h \in 0..Len(body) : sheet = InsertAt(body, h, HeaderRow)
       ELSE rate_cells = <<>> /\ hdr_col = 0 /\ sheet = <<>>
    /\ bpc = "start"
    /\ total_rate = 0 /\ ot_rate = 0
    /\ payment_col = 0 - 1
    /\ bill_row = 0
    /\ total_billed = 0

\* lines 818-841: open the workbook, read the two rates
BillFindRates ==
    /\ bpc = "start"
    /\ IF ~readable
       THEN bpc' = "early" /\ UNCHANGED <<total_rate, ot_rate>>
       ELSE /\ total_rate' = find_total_rate_and_ot_rate_in_sheet(rate_cells)[1]
            /\ ot_rate' = find_total_rate_and_ot_rate_in_sheet(rate_cells)[2]
            /\ bpc' = IF total_rate' <= 0 \/ ot_rate' <= 0 THEN "early" ELSE "header"
    /\ UNCHANGED <<readable, rate_cells, sheet, hdr_col, payment_col, bill_row, total_billed>>

\* lines 846-866: find the header; the walk starts at range(payment_col, nrows)
BillFindHeader ==
    /\ bpc = "header"
    /\ IF HeaderRows(sheet) = {}
       THEN bpc' = "early" /\ UNCHANGED <<payment_col, bill_row>>
       ELSE /\ payment_col' = hdr_col
            /\ bill_row' = hdr_col
            /\ bpc' = "walk"
    /\ UNCHANGED <<readable, rate_cells, sheet, hdr_col, total_rate, ot_rate, total_billed>>

\* lines 866-907: one row of the walk
BillWalkRow ==
    /\ bpc = "walk" /\ bill_row < Len(sheet)
    /\ total_billed' =
           IF Billable(sheet[bill_row + 1], month)
           THEN total_billed + RowAmount(sheet[bill_row + 1], total_rate, ot_rate)
           ELSE total_billed
    /\ bill_row' = bill_row + 1
    /\ UNCHANGED <<readable, rate_cells, sheet, hdr_col, bpc, total_rate, ot_rate,
                   payment_col>>

\* line 909
BillReturn ==
    /\ bpc = "walk" /\ bill_row >= Len(sheet)
    /\ bpc' = "done"
    /\ UNCHANGED <<readable, rate_cells, sheet, hdr_col, total_rate, ot_rate, payment_col,
                   bill_row, total_billed>>

BillIdle ==
    /\ readable = FALSE /\ rate_cells = <<>> /\ sheet = <<>> /\ hdr_col = 0
    /\ bpc = "idle" /\ total_rate = 0 /\ ot_rate = 0 /\ payment_col = 0 - 1
    /\ bill_row = 0 /\ total_billed = 0

\* ------------------------------------------------- period and date parsers
\* the character at position i, "" past either end
CharAt(s, i) == IF i >= 1 /\ i <= Len(s) THEN s[i] ELSE ""

\* the position after the run of digits that starts at i (i when there is none)
RECURSIVE RunEnd(_, _)
RunEnd(s, i) == IF IsDigit(CharAt(s, i)) THEN RunEnd(s, i + 1) ELSE i

\* the position after the run of whitespace that starts at i: \s*
RECURSIVE SkipSpace(_, _)
SkipSpace(s, i) == IF IsSpace(CharAt(s, i)) THEN SkipSpace(s, i + 1) ELSE i

\* int() of the digits s[i] .. s[j - 1]
RECURSIVE NumAt(_, _, _)
NumAt(s, i, j) == IF j <= i THEN 0 ELSE 10 * NumAt(s, i, j - 1) + DigitVal(s[j - 1])

\* (\d{1,2}) followed by something that is no digit: the whole run, of 1 or 2 digits
ShortRun(s, i) == RunEnd(s, i) - i \in {1, 2}

NoSpan == <<NoDate, NoDate>>

\* the label must end with the four digits of the year: a suffix defeats the match
extract_period_dates_FullMatch(period_str) ==
    LET s == period_str
        b1 == RunEnd(s, 1)
        b2 == RunEnd(s, b1 + 1)
        p == SkipSpace(s, b2)
        q == SkipSpace(s, p + 1)
        b3 == RunEnd(s, q)
        b4 == RunEnd(s, b3 + 1)
        b5 == RunEnd(s, b4 + 1)
    IN  IF /\ ShortRun(s, 1) /\ CharAt(s, b1) = "/"
           /\ ShortRun(s, b1 + 1)
           /\ CharAt(s, p) \in Separators
           /\ ShortRun(s, q) /\ CharAt(s, b3) \in Separators
           /\ ShortRun(s, b3 + 1) /\ CharAt(s, b4) \in Separators
           /\ b5 - (b4 + 1) = 4 /\ b5 = Len(s) + 1
        THEN << <<NumAt(s, 1, b1), NumAt(s, b1 + 1, b2), NumAt(s, b4 + 1, b4 + 5)>>,
                <<NumAt(s, q, b3), NumAt(s, b3 + 1, b4), NumAt(s, b4 + 1, b4 + 5)>> >>
        ELSE NoSpan

\* v18b extract_period_dates:
\* re.match(r'(\d{1,2})/(\d{1,2})\s*[-/]\s*(\d{1,2})[-/](\d{1,2})[-/](\d{4})', period_str);
\* the one year of the label is given to both dates
extract_period_dates(period_str) ==
    LET s == period_str
        b1 == RunEnd(s, 1)
        b2 == RunEnd(s, b1 + 1)
        p == SkipSpace(s, b2)
        q == SkipSpace(s, p + 1)
        b3 == RunEnd(s, q)
        b4 == RunEnd(s, b3 + 1)
        b5 == RunEnd(s, b4 + 1)
    IN  IF /\ ShortRun(s, 1) /\ CharAt(s, b1) = "/"
           /\ ShortRun(s, b1 + 1)
           /\ CharAt(s, p) \in Separators
           /\ ShortRun(s, q) /\ CharAt(s, b3) \in Separators
           /\ ShortRun(s, b3 + 1) /\ CharAt(s, b4) \in Separators
           /\ b5 - (b4 + 1) >= 4
        THEN << <<NumAt(s, 1, b1), NumAt(s, b1 + 1, b2), NumAt(s, b4 + 1, b4 + 5)>>,
                <<NumAt(s, q, b3), NumAt(s, b3 + 1, b4), NumAt(s, b4 + 1, b4 + 5)>> >>
        ELSE NoSpan

\* a two-digit year is promoted by 2000
Promote(y) == IF y < 100 THEN y + 2000 ELSE y

\* v18b extract_single_date: re.match(r'(\d{1,2})/(\d{1,2})/(\d{2,4})', date_str)
extract_single_date(date_str) ==
    LET s == date_str
        b1 == RunEnd(s, 1)
        b2 == RunEnd(s, b1 + 1)
        b3 == RunEnd(s, b2 + 1)
        take == IF b3 - (b2 + 1) > 4 THEN 4 ELSE b3 - (b2 + 1)
    IN  IF /\ ShortRun(s, 1) /\ CharAt(s, b1) = "/"
           /\ ShortRun(s, b1 + 1) /\ CharAt(s, b2) = "/"
           /\ b3 - (b2 + 1) >= 2
        THEN <<NumAt(s, 1, b1), NumAt(s, b1 + 1, b2),
               Promote(NumAt(s, b2 + 1, b2 + 1 + take))>>
        ELSE NoDate

\* v17b extract_date_from_period: re.match(r'(\d{1,2})/(\d{1,2})', period_str), and the
\* year from the first four digits in a row anywhere in the text, else 0
extract_date_from_period(period_str) ==
    LET s == period_str
        b1 == RunEnd(s, 1)
        run2 == RunEnd(s, b1 + 1) - (b1 + 1)
        b2 == IF run2 > 2 THEN b1 + 3 ELSE b1 + 1 + run2
        four == { i \in 1..Len(s) : RunEnd(s, i) - i >= 4 }
        y0 == CHOOSE i \in four : \A k \in four : i <= k
    IN  IF ShortRun(s, 1) /\ CharAt(s, b1) = "/" /\ run2 >= 1
        THEN <<NumAt(s, 1, b1), NumAt(s, b1 + 1, b2),
               IF four = {} THEN 0 ELSE NumAt(s, y0, y0 + 4)>>
        ELSE NoDate

\* datetime.date(y, m, d) accepts the date
IsLeap(y) == (y % 4 = 0 /\ y % 100 # 0) \/ y % 400 = 0
DaysIn(m, y) ==
    IF m = 2 THEN (IF IsLeap(y) THEN 29 ELSE 28)
    ELSE IF m \in {4, 6, 9, 11} THEN 30 ELSE 31
ValidDate(m, d, y) == y \in 1..9999 /\ m \in 1..12 /\ d >= 1 /\ d <= DaysIn(m, y)

\* what a strptime directive accepts of the digits s[i] .. s[j - 1]
FieldOK(f, s, i, j) ==
    CASE f = "m" -> \/ j - i = 2 /\ NumAt(s, i, j) \in 1..12
                    \/ j - i = 1 /\ NumAt(s, i, j) \in 1..9
      [] f = "d" -> \/ j - i = 2 /\ NumAt(s, i, j) \in 1..31
                    \/ j - i = 1 /\ NumAt(s, i, j) \in 1..9
      [] f = "Y" -> j - i = 4
      [] f = "y" -> j - i = 2

\* %y of strptime: 00..68 are 2000..2068, 69..99 are 1969..1999
StrptimeYear(f, v) == IF f = "Y" THEN v ELSE IF v <= 68 THEN 2000 + v ELSE 1900 + v

\* datetime.strptime(s, fmt) for a format of three numeric directives f[1] sep f[2] sep
\* f[3], then date(dt.year, dt.month, dt.day); NoDate when it raises
Strptime(s, f, sep) ==
    LET b1 == RunEnd(s, 1)
        b2 == RunEnd(s, b1 + 1)
        b3 == RunEnd(s, b2 + 1)
        v == <<NumAt(s, 1, b1), NumAt(s, b1 + 1, b2), NumAt(s, b2 + 1, b3)>>
        at(x) == CHOOSE k \in 1..3 : f[k] = x \/ (x = "Y" /\ f[k] = "y")
        yy == StrptimeYear(f[at("Y")], v[at("Y")])
    IN  IF /\ CharAt(s, b1) = sep /\ CharAt(s, b2) = sep /\ b3 = Len(s) + 1
           /\ FieldOK(f[1], s, 1, b1)
           /\ FieldOK(f[2], s, b1 + 1, b2)
           /\ FieldOK(f[3], s, b2 + 1, b3)
           /\ ValidDate(v[at("m")], v[at("d")], yy)
        THEN <<v[at("m")], v[at("d")], yy>>
        ELSE NoDate

\* the formats of _normalize_input_date_to_dateobj, in the order they are tried
DateFormats ==
    << <<<<"m", "d", "Y">>, "/">>, <<<<"m", "d", "y">>, "/">>, <<<<"Y", "m", "d">>, "-">>,
       <<<<"Y", "m", "d">>, "/">>, <<<<"m", "d", "Y">>, "-">>, <<<<"m", "d", "y">>, "-">> >>

\* the regex fallback: ^\s*0?(\d{1,2})[/-]0?(\d{1,2})[/-](\d{2,4})\s*$ on the trimmed text
RegexFallback(s) ==
    LET b1 == RunEnd(s, 1)
        b2 == RunEnd(s, b1 + 1)
        b3 == RunEnd(s, b2 + 1)
        field(i, j) == j - i \in {1, 2} \/ (j - i = 3 /\ CharAt(s, i) = "0")
        mm == NumAt(s, 1, b1)
        dd == NumAt(s, b1 + 1, b2)
        yy == Promote(NumAt(s, b2 + 1, b3))
    IN  IF /\ field(1, b1) /\ CharAt(s, b1) \in Separators
           /\ field(b1 + 1, b2) /\ CharAt(s, b2) \in Separators
           /\ b3 - (b2 + 1) \in 2..4 /\ b3 = Len(s) + 1
           /\ ValidDate(mm, dd, yy)
        THEN <<mm, dd, yy>>
        ELSE NoDate

\* _normalize_input_date_to_dateobj as (month, day, year); NoDate for None
RECURSIVE TryFormats(_, _)
TryFormats(s, k) ==
    IF k > Len(DateFormats) THEN RegexFallback(s)
    ELSE IF Strptime(s, DateFormats[k][1], DateFormats[k][2]) # NoDate
         THEN Strptime(s, DateFormats[k][1], DateFormats[k][2])
         ELSE TryFormats(s, k + 1)

normalize_input_date_to_dateobj(txt) ==
    IF Strip(txt) = <<>> THEN NoDate ELSE TryFormats(Strip(txt), 1)

\* ------------------------------------------------------------ safe_float
\* a cell value: None, a number, or a text
NoneCell == [t |-> "none"]
NumCell(n) == [t |-> "num", n |-> n]
TextCell(s) == [t |-> "text", s |-> s]

\* a decimal number: num / 10^scale
Decimal(n, sc) == [num |-> n, scale |-> sc]
Zero == Decimal(0, 0)

RECURSIVE Pow10(_)
Pow10(k) == IF k = 0 THEN 1 ELSE 10 * Pow10(k - 1)

SameValue(a, b) == a.num * Pow10(b.scale) = b.num * Pow10(a.scale)

\* .replace(",", "").replace("$", "").replace("(", "-").replace(")", "")
Unformat(s) ==
    LET kept == SelectSeq(s, LAMBDA c : c \notin {",", "$", ")"})
    IN  [i \in 1..Len(kept) |-> IF kept[i] = "(" THEN "-" ELSE kept[i]]

\* re.search(r"-?\d+(?:\.\d+)?", s) and float() of the match
FirstNumber(s) ==
    LET starts == { i \in 1..Len(s) :
                      \/ IsDigit(s[i])
                      \/ s[i] = "-" /\ IsDigit(CharAt(s, i + 1)) }
        i0 == CHOOSE i \in starts : \A k \in starts : i <= k
        neg == s[i0] = "-"
        a == IF neg THEN i0 + 1 ELSE i0
        b == RunEnd(s, a)
        hasFrac == CharAt(s, b) = "." /\ IsDigit(CharAt(s, b + 1))
        fb == IF hasFrac THEN RunEnd(s, b + 1) ELSE b + 1
        sc == IF hasFrac THEN fb - (b + 1) ELSE 0
        mag == NumAt(s, a, b) * Pow10(sc) + (IF hasFrac THEN NumAt(s, b + 1, fb) ELSE 0)
    IN  IF starts = {} THEN Zero
        ELSE Decimal(IF neg THEN 0 - mag ELSE mag, sc)

\* the parentheses are dropped and the sign is kept as written
safe_float_NoParens(x) ==
    IF x.t = "none" THEN Zero
    ELSE IF x.t = "num" THEN Decimal(x.n, 0)
    ELSE LET s == SelectSeq(Strip(x.s), LAMBDA c : c \notin {",", "$", "(", ")"})
         IN  IF s = <<>> \/ s = <<"-">> THEN Zero ELSE FirstNumber(s)

safe_float(x) ==
    IF x.t = "none" THEN Zero
    ELSE IF x.t = "num" THEN Decimal(x.n, 0)
    ELSE LET s == Unformat(Strip(x.s))
         IN  IF s = <<>> \/ s = <<"-">> THEN Zero ELSE FirstNumber(s)

\* --------------------------------------- one text through the parsers
VARIABLES
    p_in,       \* the cell: what was written (kind, style, the dates or amount meant) and its text
    p_pc,       \* "input", "dated", "done"
    p_span,     \* extract_period_dates of the text
    p_single,   \* extract_single_date of the text
    p_norm,     \* _normalize_input_date_to_dateobj of the text
    p_sf        \* safe_float of the cell

parseVars == <<p_in, p_pc, p_span, p_single, p_norm, p_sf>>

MaxMoneyLen == 4

RECURSIVE DecN(_)
DecN(n) == IF n < 10 THEN <<DigitChars[n + 1]>> ELSE DecN(n \div 10) \o <<DigitChars[(n % 10) + 1]>>

\* 1234 as "1,234"
DecComma(n) ==
    IF n < 1000 THEN DecN(n)
    ELSE DecN(n \div 1000) \o <<",">> \o
         <<DigitChars[((n \div 100) % 10) + 1], DigitChars[((n \div 10) % 10) + 1],
           DigitChars[(n % 10) + 1]>>

ParseInput(k, st, t, sp, d, a, c) ==
    [kind |-> k, style |-> st, txt |-> t, span |-> sp, date |-> d, amount |-> a, cell |-> c]

\* a work period from one day to a later day, written with the year of its last day
RangeText(st, m1, d1, m2, d2, y) ==
    CASE st = "padded" -> FmtRange(m1, d1, m2, d2, y)
      [] st = "bare" -> Dec(m1) \o <<"/">> \o Dec(d1) \o <<"-">> \o Dec(m2) \o <<"/">>
                            \o Dec(d2) \o <<"/">> \o Dec4(y)
      [] st = "spaced" -> Dec2(m1) \o <<"/">> \o Dec2(d1) \o <<" ", "-", " ">> \o Dec2(m2)
                            \o <<"/">> \o Dec2(d2) \o <<"/">> \o Dec4(y)
      [] st = "ot" -> FmtRange(m1, d1, m2, d2, y) \o <<"-", "o", "t">>

WorkSpans ==
    { << <<6, 1, 2025>>, <<6, 7, 2025>> >>, << <<6, 29, 2025>>, <<7, 5, 2025>> >>,
      << <<12, 1, 2025>>, <<12, 31, 2025>> >>, << <<12, 29, 2025>>, <<1, 4, 2026>> >>,
      << <<1, 1, 2025>>, <<1, 1, 2025>> >> }

RangeInputs ==
    { ParseInput("range", st, RangeText(st, sp[1][1], sp[1][2], sp[2][1], sp[2][2], sp[2][3]),
                 sp, NoDate, Zero,
                 TextCell(RangeText(st, sp[1][1], sp[1][2], sp[2][1], sp[2][2], sp[2][3]))) :
        st \in {"padded", "bare", "spaced", "ot"}, sp \in WorkSpans }

DateText(st, m, d, y) ==
    CASE st = "MM/DD/YYYY" -> Dec2(m) \o <<"/">> \o Dec2(d) \o <<"/">> \o Dec4(y)
      [] st = "MM/DD/YY" -> Dec2(m) \o <<"/">> \o Dec2(d) \o <<"/">> \o Dec2(y % 100)
      [] st = "M/D/YYYY" -> Dec(m) \o <<"/">> \o Dec(d) \o <<"/">> \o Dec4(y)
      [] st = "M/D/YY" -> Dec(m) \o <<"/">> \o Dec(d) \o <<"/">> \o Dec2(y % 100)
      [] st = "MM-DD-YYYY" -> Dec2(m) \o <<"-">> \o Dec2(d) \o <<"-">> \o Dec4(y)
      [] st = "YYYY-MM-DD" -> Dec4(y) \o <<"-">> \o Dec2(m) \o <<"-">> \o Dec2(d)
      [] st = "MM/DD-YY" -> Dec2(m) \o <<"/">> \o Dec2(d) \o <<"-">> \o Dec2(y % 100)

DateStyles ==
    {"MM/DD/YYYY", "MM/DD/YY", "M/D/YYYY", "M/D/YY", "MM-DD-YYYY", "YYYY-MM-DD", "MM/DD-YY"}

\* the dates written: valid ones, and June 31 and February 29 of a common year
DateInputs ==
    { ParseInput("date", st, DateText(st, m, d, y), NoSpan, <<m, d, y>>, Zero,
                 TextCell(DateText(st, m, d, y))) :
        st \in DateStyles, m \in {2, 6, 12}, d \in {1, 18, 29, 31},
        y \in {2000, 2024, 2025, 2068, 2069, 2099} }

\* an amount as a ledger writes it
MoneyText(whole, frac, dollar, comma, paren, pad) ==
    (IF pad THEN <<" ">> ELSE <<>>) \o (IF dollar THEN <<"$">> ELSE <<>>)
        \o (IF paren THEN <<"(">> ELSE <<>>)
        \o (IF comma THEN DecComma(whole) ELSE DecN(whole))
        \o (IF frac = <<>> THEN <<>> ELSE <<".">> \o frac)
        \o (IF paren THEN <<")">> ELSE <<>>) \o (IF pad THEN <<" ">> ELSE <<>>)

MoneyInputs ==
    { ParseInput("money", IF paren THEN "paren" ELSE "plain",
                 MoneyText(whole, frac, dollar, comma, paren, pad), NoSpan, NoDate,
                 Decimal((IF paren THEN 0 - 1 ELSE 1) *
                             (whole * Pow10(Len(frac)) + NumAt(frac, 1, Len(frac) + 1)),
                         Len(frac)),
                 TextCell(MoneyText(whole, frac, dollar, comma, paren, pad))) :
        whole \in {0, 5, 500, 1234}, frac \in {<<>>, <<"5">>, <<"5", "6">>, <<"0", "0">>},
        dollar \in BOOLEAN, comma \in BOOLEAN, paren \in BOOLEAN, pad \in BOOLEAN }

MoneyAlphabet == {"1", "5", "0", ".", ",", "$", "(", ")", "-", " ", "a"}

RawInputs ==
    { ParseInput("raw", "text", t, NoSpan, NoDate, Zero, TextCell(t)) :
        t \in SeqsUpTo(MoneyAlphabet, MaxMoneyLen) \cup {<<"a", "b", "c">>} }
    \cup { ParseInput("raw", "none", <<>>, NoSpan, NoDate, Zero, NoneCell),
           ParseInput("raw", "number", <<>>, NoSpan, NoDate, Decimal(12, 0), NumCell(12)) }

ParseInit ==
    /\ p_in \in RangeInputs \cup DateInputs \cup MoneyInputs \cup RawInputs
    /\ p_pc = "input"
    /\ p_span = NoSpan /\ p_single = NoDate /\ p_norm = NoDate /\ p_sf = Zero

\* the period parsers on the cell text as the section walk prepares it
\* (str(period_text).strip().lower()), and the date normaliser on str(v)
ApplyDateParsers ==
    /\ p_pc = "input"
    /\ p_span' = extract_period_dates(LowerStr(Strip(p_in.txt)))
    /\ p_single' = extract_single_date(LowerStr(Strip(p_in.txt)))
    /\ p_norm' = normalize_input_date_to_dateobj(p_in.txt)
    /\ p_pc' = "dated"
    /\ UNCHANGED <<p_in, p_sf>>

ApplySafeFloat ==
    /\ p_pc = "dated"
    /\ p_sf' = safe_float(p_in.cell)
    /\ p_pc' = "done"
    /\ UNCHANGED <<p_in, p_span, p_single, p_norm>>

ParseIdle ==
    /\ p_in = ParseInput("none", "none", <<>>, NoSpan, NoDate, Zero, NoneCell)
    /\ p_pc = "idle"
    /\ p_span = NoSpan /\ p_single = NoDate /\ p_norm = NoDate /\ p_sf = Zero

\* --------------------------- calculate_admin_fee_for_paysheet, the whole sheet
VARIABLES
    g_access,   \* "ok", "error" (open_workbook raises), "nosheet" (no sheet named 2025)
    grid,       \* the rows of the sheet: the one text cell of the row, its column, and
                \* the number in the cell to its right
    headers,    \* the section headers found, top to bottom
    g_idx,      \* number of sections entered
    g_end,      \* section_end of the section entered last
    g_pc,       \* "start", "sections", "done"
    g_out       \* how the call ended: [raised, value]

gridVars == <<g_access, grid, headers, g_idx, g_end, g_pc, g_out>>

MaxGridRows == 7
MaxFilled == 3
MaxWorkRows == 3

\* a row of the sheet; period is the (month, year) in which the period written starts
GridRow(c, t, v, p) == [col |-> c, txt |-> t, val |-> v, period |-> p]
EmptyRow == GridRow(0, <<>>, 0, NoPeriod)
HeaderAt(c) == GridRow(c, <<"W", "o", "r", "k", " ", "P", "e", "r", "i", "o", "d">>, 0, NoPeriod)

\* sheet.cell_value(r, c) and safe_float(sheet.cell_value(r, c + 1))
CellTxt(g, i, c) == IF g[i].col = c THEN g[i].txt ELSE <<>>
CellVal(g, i, c) == IF g[i].col = c THEN g[i].val ELSE 0

OtherCol == 2

\* rows of a sheet with several sections
GridShapes ==
    { EmptyRow,
      GridRow(0, FmtRange(6, 1, 6, 7, 2025), 40, <<6, 2025>>),
      GridRow(0, <<"T", "o", "t", "a", "l">>, 40, NoPeriod),
      HeaderAt(0), HeaderAt(OtherCol) }

\* rows of one Work Period section
WorkShapes ==
    { EmptyRow,
      GridRow(0, FmtRange(6, 1, 6, 7, 2025), 40, <<6, 2025>>),
      GridRow(0, FmtRange(6, 8, 6, 14, 2025) \o <<"-", "O", "T">>, 45, <<6, 2025>>),
      GridRow(0, FmtRange(7, 1, 7, 7, 2025), 30, <<7, 2025>>),
      GridRow(0, FmtRange(6, 1, 6, 7, 2024), 20, <<6, 2024>>),
      GridRow(0, FmtRange(6, 15, 6, 21, 2025), 0, <<6, 2025>>) }

\* the rows under the first header: at most MaxFilled of them are not empty
GridBodies ==
    { b \in [1..MaxGridRows -> GridShapes \ {HeaderAt(0)}] :
        Cardinality({ i \in 1..MaxGridRows : b[i] # EmptyRow }) <= MaxFilled }

GridWindows == { <<StaticCell(50)>>, <<EffCell(3, 1, 2025, 80)>> }
WorkTargets == { <<6, 2025>>, <<7, 2025>> }

\* the headers at the rows found, top to bottom: (row, column)
HeaderSeq(g, found) ==
    [k \in 1..Len(found) |-> [row |-> found[k], col |-> g[found[k]].col]]

\* v18b lines 140-148
FindHeaders18(g) ==
    HeaderSeq(g, SelectSeq([i \in 1..Len(g) |-> i], LAMBDA i : IsHeaderText(g[i].txt)))

\* v17b find_headers: the Work Period headers, else the Hours & Payment headers
IsWorkPeriod17(t) == Contains(LowerStr(Strip(t)), TxtWorkPeriod)
IsHoursPayment17(t) ==
    /\ ~IsWorkPeriod17(t)
    /\ Contains(LowerStr(Strip(t)), TxtHours) /\ Contains(LowerStr(Strip(t)), TxtPayment)
FindHeaders17(g) ==
    LET wp == SelectSeq([i \in 1..Len(g) |-> i], LAMBDA i : IsWorkPeriod17(g[i].txt))
        hp == SelectSeq([i \in 1..Len(g) |-> i], LAMBDA i : IsHoursPayment17(g[i].txt))
    IN  HeaderSeq(g, IF wp # <<>> THEN wp ELSE hp)

TxtAdminFees == <<"a", "d", "m", "i", "n", " ", "f", "e", "e", "s">>
Terminators == {TxtTotal, TxtAdminFees, TxtDeductions}
IsTerminator(t) == \E x \in Terminators : Contains(LowerStr(Strip(t)), x)

GuardBand == 5

\* the section runs to the end of the sheet: the rows close to the next header are walked
SectionEnd18_NoGuard(g, hs, k) ==
    LET stops == { i \in (hs[k].row + 1)..Len(g) :
                     CellTxt(g, i, hs[k].col) # <<>> /\ IsTerminator(CellTxt(g, i, hs[k].col)) }
    IN  IF stops = {} THEN Len(g) + 1 ELSE CHOOSE i \in stops : \A j \in stops : i <= j

\* v18b lines 154-170: section_end of the k-th header.  Rows are numbered from 1 here,
\* so the end of the sheet (sheet.nrows) is Len(g) + 1.
SectionEnd18(g, hs, k) ==
    LET stops == { i \in (hs[k].row + 1)..Len(g) :
                     /\ CellTxt(g, i, hs[k].col) # <<>>
                     /\ \/ IsTerminator(CellTxt(g, i, hs[k].col))
                        \/ k < Len(hs) /\ i >= hs[k + 1].row - GuardBand }
    IN  IF stops = {} THEN Len(g) + 1 ELSE CHOOSE i \in stops : \A j \in stops : i <= j

NoRow == [kind |-> "none", start |-> NoDate, end |-> NoDate, val |-> 0]

\* v18b lines 197-208, 276-283: the period cell as a range or as a single date
ParseRow18(t, v) ==
    LET period_str == LowerStr(Strip(t))
    IN  IF t = <<>> THEN NoRow
        ELSE IF extract_period_dates(period_str) # NoSpan
             THEN [kind |-> "range", start |-> extract_period_dates(period_str)[1],
                   end |-> extract_period_dates(period_str)[2], val |-> v]
        ELSE IF extract_single_date(period_str) # NoDate
             THEN [kind |-> "single", start |-> extract_single_date(period_str),
                   end |-> extract_single_date(period_str), val |-> v]
        ELSE NoRow

SkipWords17 ==
    { TxtTotal, TxtDeductions, <<"g", "r", "o", "s", "s">>, <<"t", "a", "x", "e", "s">>,
      <<"b", "u", "f", "f", "e", "r">>, <<"n", "e", "t">>, <<"o", "t", " ", "r", "a", "t", "e">>,
      <<"r", "a", "t", "e">>, <<"e", "m", "p", "l", "o", "y", "e", "e">> }

\* v17b lines 150-159
ParseRow17(t, v) ==
    LET period_str == LowerStr(Strip(t))
    IN  IF t = <<>> THEN NoRow
        ELSE IF \E x \in SkipWords17 : Contains(period_str, x) THEN NoRow
        ELSE IF extract_date_from_period(period_str) # NoDate
             THEN [kind |-> "range", start |-> extract_date_from_period(period_str),
                   end |-> extract_date_from_period(period_str), val |-> v]
        ELSE NoRow

\* the rows first .. last - 1 of column c, parsed as generation v parses them
SectionRows(g, c, first, last, v) ==
    [i \in 1..(IF last > first THEN last - first ELSE 0) |->
        IF v = "v18b"
        THEN ParseRow18(CellTxt(g, first + i - 1, c), CellVal(g, first + i - 1, c))
        ELSE ParseRow17(CellTxt(g, first + i - 1, c), CellVal(g, first + i - 1, c))]

Returned(v) == [raised |-> FALSE, value |-> v]
NoOutcome == [raised |-> FALSE, value |-> <<>>]

\* a sheet with up to MaxGridRows rows under its first header, read by v18b
GridInit ==
    /\ gen = "v18b"
    /\ month = 6 /\ year = 2025
    /\ g_access \in {"ok", "error", "nosheet"}
    /\ IF g_access = "ok"
       THEN /\ window \in GridWindows
            /\ \E body \in GridBodies, second \in {0, OtherCol} :
                  grid = <<HeaderAt(0)>> \o
                         [i \in 1..MaxGridRows |->
                             IF body[i] = HeaderAt(OtherCol) THEN HeaderAt(second)
                             ELSE body[i]]
       ELSE window = <<>> /\ grid = <<>>
    /\ headers = <<>> /\ g_idx = 0 /\ g_end = 0 /\ g_pc = "start" /\ g_out = NoOutcome
    /\ rows = <<>> /\ pc = "idle" /\ admin_fees_list = <<>> /\ static_rate = 0
    /\ admin_fee_rate = 0 /\ r = 0 /\ rate = 0 /\ branch = "none"
    /\ section_hours = 0 /\ section_fee = 0 /\ section_rate = 0
    /\ total_hours = 0 /\ total_admin_fee = 0 /\ last_rate = 0

\* one Work Period section with a static rate only, read by either generation
WorkInit ==
    /\ gen \in {"v18b", "v17b"}
    /\ \E t \in WorkTargets : month = t[1] /\ year = t[2]
    /\ g_access = "ok"
    /\ window = <<StaticCell(50)>>
    /\ \E body \in SeqsUpTo(WorkShapes, MaxWorkRows) : grid = <<HeaderAt(0)>> \o body
    /\ headers = <<>> /\ g_idx = 0 /\ g_end = 0 /\ g_pc = "start" /\ g_out = NoOutcome
    /\ rows = <<>> /\ pc = "idle" /\ admin_fees_list = <<>> /\ static_rate = 0
    /\ admin_fee_rate = 0 /\ r = 0 /\ rate = 0 /\ branch = "none"
    /\ section_hours = 0 /\ section_fee = 0 /\ section_rate = 0
    /\ total_hours = 0 /\ total_admin_fee = 0 /\ last_rate = 0

\* v18b lines 129-151, 307-310 and v17b lines 116-128, 176-177: open the workbook, pick
\* the sheet, find the headers
GridOpen ==
    /\ g_pc = "start"
    /\ IF g_access # "ok"
       THEN /\ g_pc' = "done" /\ g_out' = Returned(<<0, 0, 0>>)
            /\ UNCHANGED headers
       ELSE /\ headers' = IF gen = "v18b" THEN FindHeaders18(grid) ELSE FindHeaders17(grid)
            /\ IF headers' = <<>>
               THEN g_pc' = "done" /\ g_out' = Returned(<<0, 0, 0>>)
               ELSE g_pc' = "sections" /\ g_out' = g_out
    /\ UNCHANGED <<g_access, grid, g_idx, g_end, feeVars>>

\* the section walk is not under way
BetweenSections == g_pc = "sections" /\ pc \in {"idle", "done"}

\* v18b lines 153-170: enter the next section and bound it
GridSection ==
    /\ BetweenSections /\ gen = "v18b" /\ g_idx < Len(headers)
    /\ g_idx' = g_idx + 1
    /\ g_end' = SectionEnd18(grid, headers, g_idx + 1)
    /\ rows' = SectionRows(grid, headers[g_idx + 1].col, headers[g_idx + 1].row + 1,
                           SectionEnd18(grid, headers, g_idx + 1), "v18b")
    /\ pc' = "start" /\ r' = 0 /\ rate' = 0 /\ branch' = "none"
    /\ section_hours' = 0 /\ section_fee' = 0 /\ section_rate' = 0
    /\ UNCHANGED <<gen, window, month, year, admin_fees_list, static_rate, admin_fee_rate,
                   total_hours, total_admin_fee, last_rate>>
    /\ UNCHANGED <<g_access, grid, headers, g_pc, g_out>>

\* v17b lines 130-134, 144-147: the section runs to the next header or the end of the sheet
GridSection17 ==
    /\ BetweenSections /\ gen = "v17b" /\ g_idx < Len(headers)
    /\ g_idx' = g_idx + 1
    /\ g_end' = IF g_idx + 1 < Len(headers) THEN headers[g_idx + 2].row ELSE Len(grid) + 1
    /\ rows' = SectionRows(grid, headers[g_idx + 1].col, headers[g_idx + 1].row + 1,
                           g_end', "v17b")
    /\ pc' = "start" /\ r' = 0 /\ rate' = 0 /\ branch' = "none"
    /\ section_hours' = 0 /\ section_fee' = 0 /\ section_rate' = 0
    /\ UNCHANGED <<gen, window, month, year, admin_fees_list, static_rate, admin_fee_rate,
                   total_hours, total_admin_fee, last_rate>>
    /\ UNCHANGED <<g_access, grid, headers, g_pc, g_out>>

\* v18b line 305, v17b line 175
GridReturn ==
    /\ BetweenSections /\ g_idx = Len(headers)
    /\ g_pc' = "done"
    /\ g_out' = Returned(<<total_hours, last_rate, total_admin_fee>>)
    /\ UNCHANGED <<g_access, grid, headers, g_idx, g_end, feeVars>>

GridIdle ==
    /\ g_access = "ok" /\ grid = <<>> /\ headers = <<>> /\ g_idx = 0 /\ g_end = 0
    /\ g_pc = "idle" /\ g_out = NoOutcome

\* ------------------------------- accrual_updater.py: find_amount_for_date_in_paysheet
VARIABLES
    a_ok,      \* the workbook opens
    a_book,    \* its sheets: [ncols, rows]
    a_pc,      \* "start", "preferred", "fallback", "adjust", "done"
    a_sheet,   \* index of the sheet being scanned
    a_hit,     \* where the target date was found: <<sheet, row, column>>
    a_nr,      \* the row the adjustment loop looks at next
    a_base,    \* base_amt
    a_adj,     \* total_adjustments
    a_out      \* how the call ended: [raised, value]

amtVars == <<a_ok, a_book, a_pc, a_sheet, a_hit, a_nr, a_base, a_adj, a_out>>

MaxAmtRows == 3

\* the date looked for
TargetDate == <<6, 18, 2025>>

\* a row of a sheet: one text cell in column col (0-based) and an amount cell to its
\* right; date is the date the text stands for, val the amount the amount cell stands for
AmtRow(c, t, d, a, v) == [col |-> c, txt |-> t, date |-> d, amt |-> a, val |-> v]

AmtShapes ==
    { AmtRow(6, DateText("MM/DD/YYYY", 6, 18, 2025), TargetDate, NumCell(100), 100),
      AmtRow(7, DateText("MM/DD/YYYY", 6, 18, 2025), TargetDate, NumCell(400), 400),
      AmtRow(5, DateText("M/D/YY", 6, 18, 2025), TargetDate, NumCell(200), 200),
      AmtRow(6, DateText("MM/DD/YYYY", 6, 29, 2025), <<6, 29, 2025>>, NumCell(50), 50),
      AmtRow(6, <<"R", "e", "t", "r", "o", " ", "P", "a", "y">>, NoDate, NumCell(30), 30),
      AmtRow(5, <<"A", "C", "H">>, NoDate, TextCell(<<"(", "7", ")">>), 0 - 7),
      AmtRow(0, <<>>, NoDate, NoneCell, 0) }

AmtWidths == {8, 9}

AmtSheets ==
    { [ncols |-> w, rows |-> rs] : w \in AmtWidths, rs \in SeqsUpTo(AmtShapes, MaxAmtRows) }

\* the sheets after the first one: none, or one that holds the date
AmtMore ==
    { <<>>,
      <<[ncols |-> 8,
         rows |-> <<AmtRow(6, DateText("MM/DD/YYYY", 6, 18, 2025), TargetDate,
                           NumCell(100), 100)>>]>> }

\* sheet.cell_value(i, c); the rows are numbered from 1 here
AmtCell(sh, i, c) ==
    IF sh.rows[i].txt # <<>> /\ sh.rows[i].col = c THEN TextCell(sh.rows[i].txt)
    ELSE IF sh.rows[i].txt # <<>> /\ sh.rows[i].col + 1 = c THEN sh.rows[i].amt
    ELSE NoneCell

\* lines 495-505: the date a cell holds; only a text can be read as a date here
CellDate(x) == IF x.t = "text" THEN normalize_input_date_to_dateobj(x.s) ELSE NoDate

TxtRetro == <<"r", "e", "t", "r", "o">>
TxtAch == <<"a", "c", "h">>

\* only 'retro' marks an adjustment row
other_cell_contains_keyword_RetroOnly(x) ==
    x.t = "text" /\ Contains(LowerStr(x.s), TxtRetro)

\* _other_cell_contains_keyword
other_cell_contains_keyword(x) ==
    x.t = "text" /\ (Contains(LowerStr(x.s), TxtRetro) \/ Contains(LowerStr(x.s), TxtAch))

\* every column of the window is scanned in the first pass
preferred_date_cols_Window == <<4, 5, 6, 7, 8>>

preferred_date_cols == <<6, 7>>
fallback_window == <<4, 5, 6, 7, 8>>

\* the first cell, row by row and in the order of cols, that holds the target date:
\* <<row, column>>, or <<0, 0>> when no cell does
FirstMatch(sh, cols) ==
    LET hits == { rc \in (1..Len(sh.rows)) \X (1..Len(cols)) :
                    /\ cols[rc[2]] < sh.ncols
                    /\ CellDate(AmtCell(sh, rc[1], cols[rc[2]])) = TargetDate }
        first == CHOOSE rc \in hits : \A o \in hits : TupleLeq(<<rc[1], rc[2], 0>>, <<o[1], o[2], 0>>)
    IN  IF hits = {} THEN <<0, 0>> ELSE <<first[1], cols[first[2]]>>

NoHit == <<0, 0, 0>>

AmtInit ==
    /\ a_ok \in BOOLEAN
    /\ IF a_ok
       THEN \E first \in AmtSheets, more \in AmtMore : a_book = <<first>> \o more
       ELSE a_book = <<>>
    /\ a_pc = "start" /\ a_sheet = 0 /\ a_hit = NoHit /\ a_nr = 0
    /\ a_base = Zero /\ a_adj = 0 /\ a_out = NoOutcome

\* lines 475-487 and 746-748: open the workbook
AmtOpen ==
    /\ a_pc = "start"
    /\ IF a_ok
       THEN a_pc' = "preferred" /\ a_sheet' = 1 /\ a_out' = a_out
       ELSE a_pc' = "done" /\ a_sheet' = a_sheet /\ a_out' = Returned(0)
    /\ UNCHANGED <<a_ok, a_book, a_hit, a_nr, a_base, a_adj>>

\* lines 507-516: the date is found at (i, c): the base amount, and the loop starts
Found(i, c) ==
    /\ a_hit' = <<a_sheet, i, c>>
    /\ a_base' = IF c + 1 < a_book[a_sheet].ncols
                 THEN safe_float(AmtCell(a_book[a_sheet], i, c + 1)) ELSE Zero
    /\ a_adj' = 0
    /\ a_nr' = i + 1
    /\ a_pc' = "adjust"
    /\ UNCHANGED <<a_ok, a_book, a_sheet, a_out>>

\* lines 489-542: first pass over the sheet, the preferred columns
AmtPreferredPass ==
    /\ a_pc = "preferred"
    /\ LET hit == FirstMatch(a_book[a_sheet], preferred_date_cols)
       IN  IF hit # <<0, 0>> THEN Found(hit[1], hit[2])
           ELSE /\ a_pc' = "fallback"
                /\ UNCHANGED <<a_ok, a_book, a_sheet, a_hit, a_nr, a_base, a_adj, a_out>>

\* lines 544-599: second pass, the fallback window; then the next sheet, or 0.0
AmtFallbackPass ==
    /\ a_pc = "fallback"
    /\ LET hit == FirstMatch(a_book[a_sheet], fallback_window)
       IN  IF hit # <<0, 0>> THEN Found(hit[1], hit[2])
           ELSE IF a_sheet < Len(a_book)
                THEN /\ a_sheet' = a_sheet + 1 /\ a_pc' = "preferred"
                     /\ UNCHANGED <<a_ok, a_book, a_hit, a_nr, a_base, a_adj, a_out>>
                ELSE /\ a_pc' = "done" /\ a_out' = Returned(0)
                     /\ UNCHANGED <<a_ok, a_book, a_sheet, a_hit, a_nr, a_base, a_adj>>

\* the loop at lines 518-532 goes on: row a_nr is an adjustment row with an amount cell
Adjusting ==
    /\ a_nr <= Len(a_book[a_hit[1]].rows)
    /\ other_cell_contains_keyword(AmtCell(a_book[a_hit[1]], a_nr, a_hit[3]))
    /\ a_hit[3] + 1 < a_book[a_hit[1]].ncols

\* lines 518-530: one adjustment row
AmtAdjustRow ==
    /\ a_pc = "adjust" /\ Adjusting
    /\ a_adj' = a_adj + safe_float(AmtCell(a_book[a_hit[1]], a_nr, a_hit[3] + 1)).num
    /\ a_nr' = a_nr + 1
    /\ UNCHANGED <<a_ok, a_book, a_pc, a_sheet, a_hit, a_base, a_out>>

\* lines 532-542: the loop breaks; combined_amt = base_amt + total_adjustments
AmtReturn ==
    /\ a_pc = "adjust" /\ ~Adjusting
    /\ a_out' = Returned(a_base.num + a_adj)
    /\ a_pc' = "done"
    /\ UNCHANGED <<a_ok, a_book, a_sheet, a_hit, a_nr, a_base, a_adj>>

AmtIdle ==
    /\ a_ok = FALSE /\ a_book = <<>> /\ a_pc = "idle" /\ a_sheet = 0 /\ a_hit = NoHit
    /\ a_nr = 0 /\ a_base = Zero /\ a_adj = 0 /\ a_out = NoOutcome

\* ------------------------------------------- accrual_updater.py: AccrualUpdater.process
VARIABLES
    files,                 \* the paysheets found, in the order of the walk
    enable_ot_detection,
    dry_run, backup,
    row_hourly,            \* the master rows are marked hourly and have a value in column N
    ab_pairs,              \* date/multiplier pairs are given and give an AB total > 0
    fidx,                  \* number of files the loop has taken
    ppc,                   \* "match", "try", "saved", "aborted"
    updated,               \* the files that went through the try block, and the source of
                           \* their billed amount
    updated_count, failed_count, no_match_count,
    run_log,               \* the lines logged for the files: [doc, kind, text]
    master_cells,          \* the cells written to master rows: [doc, col]
    saved,                 \* "no", "master" (wb.save(master_path)), "copy" (_UPDATED_ file)
    backup_made

procVars == <<files, enable_ot_detection, dry_run, backup, row_hourly, ab_pairs, fidx, ppc,
              updated, updated_count, failed_count, no_match_count, run_log, master_cells,
              saved, backup_made>>

MaxFiles == 3

\* a paysheet: whether a file number is found for it, whether the master lists the
\* number, how parse_paysheet and the rest of the try block before the writes end, and
\* whether calculate_billed_with_ot hits an error inside (it returns 0.0 then)
PayFile(num, master, fails, ot) ==
    [has_num |-> num, in_master |-> master, fails |-> fails, ot_fails |-> ot]

FileKinds ==
    { PayFile(TRUE, TRUE, "none", FALSE), PayFile(FALSE, FALSE, "none", FALSE),
      PayFile(TRUE, FALSE, "none", FALSE), PayFile(TRUE, TRUE, "parse", FALSE),
      PayFile(TRUE, TRUE, "write", FALSE), PayFile(TRUE, TRUE, "none", TRUE) }

LogLine(i, k, t) == [doc |-> i, kind |-> k, text |-> t]

\* parse_paysheet lines 319-321: RuntimeError(f"Failed parsing {path}: {e}"); the path of
\* a file is its place in the list
ErrorText(i, fails) ==
    IF fails = "parse" THEN <<"Failed parsing", i>> ELSE <<"write error">>

\* the except clause lets the failure of parse_paysheet through
Caught_ParseEscapes(fails) == fails = "write"

\* line 1199: except Exception
Caught(fails) == fails \in {"parse", "write"}

\* a file without a file number is skipped without being counted
NoMatchCounted_InMasterOnly(f) == IF f.has_num /\ ~f.in_master THEN 1 ELSE 0

\* lines 1103-1111: what the file adds to no_match_count
NoMatchCounted(f) == IF f.has_num /\ f.in_master THEN 0 ELSE 1

Cell(i, col) == [doc |-> i, col |-> col]

\* the AB total is written whether or not the run is a dry run
MasterWrites_AbAlways(i, dry, hourly, ab) ==
    (IF dry THEN {} ELSE {Cell(i, "hours"), Cell(i, "billed")})
        \cup (IF ~dry /\ hourly THEN {Cell(i, "V")} ELSE {})
        \cup (IF ab THEN {Cell(i, "AB")} ELSE {})

\* lines 1172-1195: the cells of the file's master row that are written
MasterWrites(i, dry, hourly, ab) ==
    IF dry THEN {}
    ELSE {Cell(i, "hours"), Cell(i, "billed")}
            \cup (IF hourly THEN {Cell(i, "V")} ELSE {})
            \cup (IF ab THEN {Cell(i, "AB")} ELSE {})

ProcInit ==
    /\ files \in SeqsUpTo(FileKinds, MaxFiles)
    /\ enable_ot_detection \in BOOLEAN
    /\ dry_run \in BOOLEAN /\ backup \in BOOLEAN
    /\ row_hourly \in BOOLEAN /\ ab_pairs \in BOOLEAN
    /\ fidx = 0 /\ ppc = "match" /\ updated = {}
    /\ updated_count = 0 /\ failed_count = 0 /\ no_match_count = 0
    /\ run_log = <<>>
    /\ master_cells = {} /\ saved = "no" /\ backup_made = FALSE

\* lines 1067-1116: the next file; its file number and its row of the master
ProcMatch ==
    /\ ppc = "match" /\ fidx < Len(files)
    /\ fidx' = fidx + 1
    /\ no_match_count' = no_match_count + NoMatchCounted(files[fidx + 1])
    /\ IF files[fidx + 1].has_num /\ files[fidx + 1].in_master
       THEN /\ ppc' = "try"
            /\ UNCHANGED run_log
       ELSE /\ run_log' = Append(run_log, LogLine(fidx + 1, "nomatch",
                              IF files[fidx + 1].has_num THEN <<"NOT IN MASTER">>
                              ELSE <<"NO FILE NUMBER">>))
            /\ ppc' = "match"
    /\ UNCHANGED <<files, enable_ot_detection, dry_run, backup, row_hourly, ab_pairs, updated,
                   updated_count, failed_count, master_cells, saved, backup_made>>

\* lines 1118-1203: parse, aggregate and write one paysheet; a failure is logged and
\* counted
ProcTry ==
    /\ ppc = "try"
    /\ IF files[fidx].fails = "none"
       THEN /\ updated' = updated \cup
                   {[doc |-> fidx,
                     payments |-> IF enable_ot_detection /\ ~files[fidx].ot_fails
                                  THEN "calculate_billed_with_ot" ELSE "parse_paysheet"]}
            /\ master_cells' = master_cells \cup MasterWrites(fidx, dry_run, row_hourly, ab_pairs)
            /\ updated_count' = updated_count + 1
            /\ ppc' = "match"
            /\ UNCHANGED <<failed_count, run_log>>
       ELSE IF Caught(files[fidx].fails)
       THEN /\ failed_count' = failed_count + 1
            /\ run_log' = Append(run_log, LogLine(fidx, "error",
                                                  ErrorText(fidx, files[fidx].fails)))
            /\ ppc' = "match"
            /\ UNCHANGED <<updated, updated_count, master_cells>>
       ELSE /\ ppc' = "aborted"
            /\ UNCHANGED <<updated, updated_count, failed_count, run_log, master_cells>>
    /\ UNCHANGED <<files, enable_ot_detection, dry_run, backup, row_hourly, ab_pairs, fidx,
                   no_match_count, saved, backup_made>>

\* lines 1205-1258: after the loop the backup is made (a failed copy is only logged), the
\* master is saved, under another name when the master cannot be written, and the
\* counters are returned
ProcSave ==
    /\ ppc = "match" /\ fidx = Len(files)
    /\ backup_made' \in (IF ~dry_run /\ backup THEN {TRUE, FALSE} ELSE {FALSE})
    /\ saved' \in (IF ~dry_run THEN {"master", "copy"} ELSE {"no"})
    /\ ppc' = "saved"
    /\ UNCHANGED <<files, enable_ot_detection, dry_run, backup, row_hourly, ab_pairs, fidx,
                   updated, updated_count, failed_count, no_match_count, run_log,
                   master_cells>>

ProcIdle ==
    /\ files = <<>> /\ enable_ot_detection = FALSE /\ fidx = 0 /\ ppc = "idle"
    /\ dry_run = FALSE /\ backup = FALSE /\ row_hourly = FALSE /\ ab_pairs = FALSE
    /\ updated = {} /\ updated_count = 0 /\ failed_count = 0 /\ no_match_count = 0
    /\ run_log = <<>>
    /\ master_cells = {} /\ saved = "no" /\ backup_made = FALSE

\* --------------------------------- the label search around a section header
VARIABLES
    s_sheet,    \* the sheet: nrows, ncols and its non-empty cells (row, column, value),
                \* rows and columns numbered from 0 as xlrd does
    s_hdr,      \* header_row, the row of the section header
    s_next      \* the row of the next header (next_header_row, next_hp_row), sheet.nrows
                \* for the last section

searchVars == <<s_sheet, s_hdr, s_next>>

MaxDist == 11

\* search_rows=10, the default and the value of every call
search_rows == 10

Mark(rw, c, v) == [r |-> rw, c |-> c, v |-> v]

\* sheet.cell_value(r, c)
cell_value(sh, rw, c) ==
    IF \E x \in sh.cells : x.r = rw /\ x.c = c
    THEN (CHOOSE x \in sh.cells : x.r = rw /\ x.c = c).v
    ELSE NoneCell

\* `if cell_val`: an empty cell, an empty text and the number 0 are false
Truthy(x) == (x.t = "text" /\ x.s # <<>>) \/ (x.t = "num" /\ x.n # 0)

TxtAdminFeeEff == <<"a", "d", "m", "i", "n", " ", "f", "e", "e", " ", "e", "f", "f">>
TxtAdminFee == <<"a", "d", "m", "i", "n", " ", "f", "e", "e">>
TxtAdminfee == <<"a", "d", "m", "i", "n", "f", "e", "e">>

\* (\d{1,2})/ at position i: the position of the slash, 0 when there is no match
SlashAfter(s, i) ==
    IF IsDigit(CharAt(s, i)) /\ IsDigit(CharAt(s, i + 1)) /\ CharAt(s, i + 2) = "/" THEN i + 2
    ELSE IF IsDigit(CharAt(s, i)) /\ CharAt(s, i + 1) = "/" THEN i + 1
    ELSE 0

\* re.search(r'(\d{1,2})/(\d{1,2})/(\d{2,4})', text): the leftmost match, the year
\* group greedy up to four digits; a year below 100 gets 2000 added
parse_admin_fee_eff_date(text) ==
    LET ok(i) == /\ SlashAfter(text, i) > 0
                 /\ SlashAfter(text, SlashAfter(text, i) + 1) > 0
                 /\ RunEnd(text, SlashAfter(text, SlashAfter(text, i) + 1) + 1)
                        - (SlashAfter(text, SlashAfter(text, i) + 1) + 1) >= 2
        starts == { i \in 1..Len(text) : ok(i) }
        i0 == CHOOSE i \in starts : \A k \in starts : i <= k
        s1 == SlashAfter(text, i0)
        s2 == SlashAfter(text, s1 + 1)
        run == RunEnd(text, s2 + 1) - (s2 + 1)
        take == IF run > 4 THEN 4 ELSE run
    IN  IF starts = {} THEN NoDate
        ELSE <<NumAt(text, i0, s1), NumAt(text, s1 + 1, s2),
               Promote(NumAt(text, s2 + 1, s2 + 1 + take))>>

\* which admin-fee label a cell is: v18b lines 56, 74-75 and v17b lines 76-85 agree
LabelKind(x) ==
    IF ~Truthy(x) \/ x.t # "text" THEN "none"
    ELSE IF Contains(LowerStr(x.s), TxtAdminFeeEff) THEN "eff"
    ELSE IF LowerStr(Strip(x.s)) \in {TxtAdminFee, TxtAdminfee} THEN "static"
    ELSE "none"

\* the label at (rw, c) with safe_float of the cell to its right, as a cell of the
\* search window; an eff label without a date keeps NoDate
LabelAt(sh, rw, c) ==
    LET x == cell_value(sh, rw, c)
        rt == safe_float(cell_value(sh, rw, c + 1)).num
    IN  IF LabelKind(x) = "eff"
        THEN [kind |-> "eff", date |-> parse_admin_fee_eff_date(LowerStr(x.s)), rate |-> rt]
        ELSE StaticCell(rt)

\* for r in range(r0, r1): for c in range(sheet.ncols): the labels that have a cell to
\* their right (c + 1 < sheet.ncols), in scan order
LabelsIn(sh, r0, r1) ==
    LET n == IF r1 > r0 THEN (r1 - r0) * sh.ncols ELSE 0
        pos == [k \in 1..n |-> <<r0 + ((k - 1) \div sh.ncols), (k - 1) % sh.ncols>>]
        hit == SelectSeq(pos, LAMBDA p :
                   /\ LabelKind(cell_value(sh, p[1], p[2])) # "none"
                   /\ p[2] + 1 < sh.ncols)
    IN  [k \in 1..Len(hit) |-> LabelAt(sh, hit[k][1], hit[k][2])]

Max0(a) == IF a < 0 THEN 0 ELSE a
MinOf(a, b) == IF a < b THEN a ELSE b

\* v18b find_admin_fee_eff / find_static_admin_fee: range(search_start, header_row)
SearchWindow18(sh, header_row) ==
    LabelsIn(sh, Max0(header_row - search_rows), header_row)

\* v17b find_all_admin_fees_around_header: (search_start, search_end) and then
\* (header_row + 1, search_end_below)
SearchWindow17(sh, header_row) ==
    LabelsIn(sh, Max0(header_row - search_rows), header_row)
        \o LabelsIn(sh, header_row + 1, MinOf(sh.nrows, header_row + search_rows))

TxtEffLabel == <<"A", "d", "m", "i", "n", " ", "F", "e", "e", " ", "E", "f", "f", " ",
                 "3", "/", "1", "/", "2", "5">>
TxtEffNoDate == <<"A", "d", "m", "i", "n", " ", "F", "e", "e", " ", "E", "f", "f">>
TxtStaticLabel == <<"A", "d", "m", "i", "n", " ", "F", "e", "e">>
TxtStaticPadded == <<" ", "A", "D", "M", "I", "N", "F", "E", "E", " ">>
TxtEffJune == <<"A", "d", "m", "i", "n", " ", "F", "e", "e", " ", "E", "f", "f", " ",
                "0", "6", "/", "1", "5", "/", "2", "0", "2", "5">>

ProbeLabels == { TxtEffLabel, TxtEffNoDate, TxtStaticLabel, TxtStaticPadded }
ProbeRates ==
    { NumCell(80), NumCell(0), NumCell(0 - 5), TextCell(<<"(", "5", ")">>),
      TextCell(<<"$", "6", "0">>), NoneCell }

\* a second label in the row above the header, columns 2 and 3
Companions == { <<>>, <<TxtStaticLabel, NumCell(50)>>, <<TxtEffJune, NumCell(90)>> }

EmptySheet == [nrows |-> 0, ncols |-> 0, cells |-> {}]

\* a sheet with its header in column 0 of row hr, one label with the cell to its right
\* anywhere above or below, and possibly the second label
SearchSheet(hr, nr, nc, rw, c, l, v, comp) ==
    [nrows |-> nr, ncols |-> nc,
     cells |-> {Mark(hr, 0, TextCell(<<"W", "o", "r", "k", " ", "P", "e", "r", "i", "o", "d">>)),
                Mark(rw, c, TextCell(l))}
               \cup (IF c + 1 < nc /\ v # NoneCell THEN {Mark(rw, c + 1, v)} ELSE {})
               \cup (IF comp # <<>>
                     THEN {Mark(hr - 1, 2, TextCell(comp[1])), Mark(hr - 1, 3, comp[2])}
                     ELSE {})]

SearchInit ==
    /\ gen \in {"v18b", "v17b"}
    /\ month = 6 /\ year = 2025
    /\ \E hr \in {0, 2, MaxDist}, below \in {0, 2, MaxDist}, nc \in {2, 4} :
          \E rw \in 0..(hr + below), c \in {0, nc - 1}, l \in ProbeLabels, v \in ProbeRates,
             comp \in Companions :
              /\ rw # hr
              /\ comp # <<>> => nc = 4 /\ hr >= 1 /\ rw # hr - 1
              /\ s_hdr = hr /\ s_next = 0
              /\ s_sheet = SearchSheet(hr, hr + below + 1, nc, rw, c, l, v, comp)
    /\ window = <<>> /\ rows = <<>> /\ pc = "idle"
    /\ admin_fees_list = <<>> /\ static_rate = 0 /\ admin_fee_rate = 0
    /\ r = 0 /\ rate = 0 /\ branch = "none"
    /\ section_hours = 0 /\ section_fee = 0 /\ section_rate = 0
    /\ total_hours = 0 /\ total_admin_fee = 0 /\ last_rate = 0

\* the scan of the rows around the header for admin-fee labels (v18b lines 51-59 and
\* 68-77, v17b lines 67-88)
SearchLabels ==
    /\ pc = "idle" /\ gen \in {"v18b", "v17b"}
    /\ window' = IF gen = "v18b" THEN SearchWindow18(s_sheet, s_hdr)
                 ELSE SearchWindow17(s_sheet, s_hdr)
    /\ pc' = "start"
    /\ UNCHANGED <<gen, rows, month, year, admin_fees_list, static_rate, r, rate, branch,
                   admin_fee_rate, section_hours, section_fee, section_rate, total_hours,
                   total_admin_fee, last_rate>>
    /\ UNCHANGED searchVars

SearchIdle == s_sheet = EmptySheet /\ s_hdr = 0 /\ s_next = 0

\* ------------------------------------------------ the scan for section headers
MaxHdrRows == 3

\* the columns of row rw, left to right
Columns(sh) == [k \in 1..sh.ncols |-> k - 1]

\* v18b line 146 on the cell (rw, c)
IsHeader18(sh, rw, c) ==
    LET x == cell_value(sh, rw, c)
    IN  Truthy(x) /\ x.t = "text" /\ IsHeaderText(x.s)

\* v17b lines 57, 60 on the cell (rw, c)
IsHeader17(sh, rw, c) ==
    LET x == cell_value(sh, rw, c)
    IN  Truthy(x) /\ x.t = "text" /\ (IsWorkPeriod17(x.s) \/ IsHoursPayment17(x.s))

Anchor(rw, c, t) == [row |-> rw, col |-> c, type |-> t]

\* every header cell of the row gives an anchor: the scan goes on after a match
RowAnchors18_NoBreak(sh, rw) ==
    LET hit == SelectSeq(Columns(sh), LAMBDA c : IsHeader18(sh, rw, c))
    IN  [k \in 1..Len(hit) |-> Anchor(rw, hit[k], "header")]

\* v18b lines 142-148: the first header cell of the row, then break
RowAnchors18(sh, rw) ==
    LET hit == SelectSeq(Columns(sh), LAMBDA c : IsHeader18(sh, rw, c))
    IN  IF hit = <<>> THEN <<>> ELSE <<Anchor(rw, hit[1], "header")>>

\* v17b lines 53-62: the first cell of the row that is a header of either kind, then break
RowAnchors17(sh, rw) ==
    LET hit == SelectSeq(Columns(sh), LAMBDA c : IsHeader17(sh, rw, c))
    IN  IF hit = <<>> THEN <<>>
        ELSE <<Anchor(rw, hit[1],
                      IF IsWorkPeriod17(cell_value(sh, rw, hit[1]).s)
                      THEN "Work Period" ELSE "Hours & Payment")>>

\* for r in range(sheet.nrows): the anchors of the rows 0 .. n - 1
RECURSIVE ScanRows(_, _, _)
ScanRows(sh, n, v) ==
    IF n = 0 THEN <<>>
    ELSE ScanRows(sh, n - 1, v) \o
         (IF v = "v18b" THEN RowAnchors18(sh, n - 1) ELSE RowAnchors17(sh, n - 1))

\* v17b find_headers: the Work Period headers, else the Hours & Payment headers
find_headers(sh) ==
    LET all == ScanRows(sh, sh.nrows, "v17b")
        work_period_headers == SelectSeq(all, LAMBDA a : a.type = "Work Period")
        hours_payment_headers == SelectSeq(all, LAMBDA a : a.type = "Hours & Payment")
    IN  IF work_period_headers # <<>> THEN work_period_headers ELSE hours_payment_headers

TxtWP == <<"W", "o", "r", "k", " ", "P", "e", "r", "i", "o", "d">>
TxtHP == <<"H", "o", "u", "r", "s", " ", "&", " ", "P", "a", "y", "m", "e", "n", "t">>

\* the cells of one row, as (column, text) pairs: a header, a header repeated in the
\* next column, headers of both kinds in either order, a period label
HeaderRowKinds ==
    { {}, {<<0, TxtWP>>}, {<<2, TxtWP>>}, {<<0, TxtWP>>, <<1, TxtWP>>},
      {<<1, TxtHP>>}, {<<0, TxtHP>>, <<2, TxtWP>>}, {<<1, TxtWP>>, <<2, TxtHP>>},
      {<<0, FmtRange(6, 1, 6, 7, 2025)>>} }

HeaderSheet(body) ==
    [nrows |-> Len(body), ncols |-> 3,
     cells |-> UNION { { Mark(i - 1, p[1], TextCell(p[2])) : p \in body[i] } :
                       i \in 1..Len(body) }]

HeaderInit ==
    /\ gen \in {"v18b", "v17b"}
    /\ month = 6 /\ year = 2025
    /\ \E body \in SeqsUpTo(HeaderRowKinds, MaxHdrRows) : s_sheet = HeaderSheet(body)
    /\ s_hdr = 0 /\ s_next = 0
    /\ g_access = "ok" /\ grid = <<>> /\ headers = <<>> /\ g_idx = 0 /\ g_end = 0
    /\ g_pc = "start" /\ g_out = NoOutcome
    /\ window = <<>> /\ rows = <<>> /\ pc = "idle"
    /\ admin_fees_list = <<>> /\ static_rate = 0 /\ admin_fee_rate = 0
    /\ r = 0 /\ rate = 0 /\ branch = "none"
    /\ section_hours = 0 /\ section_fee = 0 /\ section_rate = 0
    /\ total_hours = 0 /\ total_admin_fee = 0 /\ last_rate = 0

\* v18b lines 140-151, v17b lines 126-128: the headers of the sheet
ScanHeaders ==
    /\ g_pc = "start" /\ s_sheet # EmptySheet
    /\ headers' = IF gen = "v18b" THEN ScanRows(s_sheet, s_sheet.nrows, "v18b")
                  ELSE find_headers(s_sheet)
    /\ IF headers' = <<>>
       THEN g_pc' = "done" /\ g_out' = Returned(<<0, 0, 0>>)
       ELSE g_pc' = "sections" /\ g_out' = g_out
    /\ UNCHANGED <<g_access, grid, g_idx, g_end, feeVars, searchVars>>

\* v18b lines 153, 166-167 and v17b lines 130-134: the next section, with its header
\* row and the row of the header after it
NextAnchor ==
    /\ g_pc = "sections" /\ s_sheet # EmptySheet /\ g_idx < Len(headers)
    /\ g_idx' = g_idx + 1
    /\ s_hdr' = headers[g_idx + 1].row
    /\ s_next' = IF g_idx + 1 < Len(headers) THEN headers[g_idx + 2].row ELSE s_sheet.nrows
    /\ UNCHANGED <<g_access, grid, headers, g_end, g_pc, g_out, s_sheet, feeVars>>

\* the loop over the headers is over
AnchorsDone ==
    /\ g_pc = "sections" /\ s_sheet # EmptySheet /\ g_idx = Len(headers)
    /\ g_pc' = "done"
    /\ UNCHANGED <<g_access, grid, headers, g_idx, g_end, g_out, feeVars, searchVars>>

\* ---------------------- the consumers of calculate_admin_fee_for_paysheet's result
VARIABLES
    caller,     \* "run_accrual_with_admin_fee" (imports admin_fee_module) or "app_polished"
                \* (imports admin_fee_module_v18b)
    c_pc,       \* "called", "reported"
    c_fee,      \* the value the caller holds as the total admin fee
    c_shown     \* the caller's test `> 0` passed and the value was reported as the fee

callVars == <<caller, c_pc, c_fee, c_shown>>

\* run_accrual_with_admin_fee.py line 10, app_polished.py line 36: which module is called
CalledModule(c) == IF c = "run_accrual_with_admin_fee" THEN "v17b" ELSE "v18b"

\* one Work Period section with a static rate, read for one of the two callers
CallInit ==
    /\ WorkInit
    /\ caller \in {"run_accrual_with_admin_fee", "app_polished"}
    /\ gen = CalledModule(caller)
    /\ c_pc = "called" /\ c_fee = 0 /\ c_shown = FALSE

\* run_accrual_with_admin_fee.py lines 81-91:
\* total_hours, total_admin_fee, breakdown = calculate_admin_fee_for_paysheet(...)
WrapperUnpack ==
    /\ caller = "run_accrual_with_admin_fee" /\ c_pc = "called" /\ g_pc = "done"
    /\ c_fee' = g_out.value[2]
    /\ c_shown' = (g_out.value[2] > 0)
    /\ c_pc' = "reported"
    /\ UNCHANGED <<caller, feeVars, gridVars>>

\* app_polished.py lines 231-243: hours, rate, admin_fee = calculate_admin_fee_for_paysheet(...)
GuiUnpack ==
    /\ caller = "app_polished" /\ c_pc = "called" /\ g_pc = "done"
    /\ c_fee' = g_out.value[3]
    /\ c_shown' = (g_out.value[3] > 0)
    /\ c_pc' = "reported"
    /\ UNCHANGED <<caller, feeVars, gridVars>>

CallIdle == caller = "none" /\ c_pc = "idle" /\ c_fee = 0 /\ c_shown = FALSE

\* ------------------------------ app_polished.py: MainWindow._run and RunnerThread.run
VARIABLES
    run_btn,               \* the Run button is enabled
    master_ok,             \* the master opens and has the sheet and columns needed
    t_pc,                  \* the worker: "none", "step1", "step2", "fees", "done",
                           \* "raised", "finished"
    t_dry, t_accrual, t_admin,   \* the flags the thread was built with
    t_fees,                \* the admin fee calculate_admin_fee_for_paysheet gives per file
    fee_idx,               \* number of files the loop of step 2 has taken
    sigq                   \* the signals emitted and not yet delivered to their slots

guiVars == <<run_btn, master_ok, t_pc, t_dry, t_accrual, t_admin, t_fees, fee_idx, sigq>>

MaxGuiFiles == 2

\* the paysheets of the folder of a run from the window
GuiFileKinds ==
    { PayFile(TRUE, TRUE, "none", FALSE), PayFile(FALSE, FALSE, "none", FALSE),
      PayFile(TRUE, FALSE, "none", FALSE), PayFile(TRUE, TRUE, "parse", FALSE) }

GuiFees == {0, 2000}

\* every signal has a slot
Connected_All == {"log", "done", "error"}

\* lines 446-447: the signals of the thread that _run connects to a slot
Connected == {"log", "done"}

\* Signal.emit: a signal without a connection reaches nobody
Emit(q, sig) == IF sig \in Connected THEN Append(q, sig) ELSE q

\* the fee is written whether or not the run is a dry run
FeeWrites_Always(i, dry, fee) == IF fee > 0 THEN {Cell(i, "T")} ELSE {}

\* lines 237-243: the cell of column T written for a file found in the master
FeeWrites(i, dry, fee) == IF fee > 0 /\ ~dry THEN {Cell(i, "T")} ELSE {}

GuiInit ==
    /\ files \in SeqsUpTo(GuiFileKinds, MaxGuiFiles)
    /\ t_fees \in [1..Len(files) -> GuiFees]
    /\ master_ok \in BOOLEAN
    /\ row_hourly \in BOOLEAN /\ ab_pairs \in BOOLEAN
    /\ enable_ot_detection = FALSE /\ dry_run = FALSE /\ backup = FALSE
    /\ fidx = 0 /\ ppc = "idle" /\ updated = {}
    /\ updated_count = 0 /\ failed_count = 0 /\ no_match_count = 0
    /\ run_log = <<>>
    /\ master_cells = {} /\ saved = "no" /\ backup_made = FALSE
    /\ run_btn = TRUE /\ t_pc = "none"
    /\ t_dry = FALSE /\ t_accrual = FALSE /\ t_admin = FALSE
    /\ fee_idx = 0 /\ sigq = <<>>

\* MainWindow._run, lines 425-448: the paths are checked, a run that is not a dry run is
\* confirmed, the button is disabled and the thread is started
ClickRun ==
    /\ run_btn /\ t_pc = "none"
    /\ \E paths_valid \in BOOLEAN, dry_box \in BOOLEAN, answer_yes \in BOOLEAN,
          accrual_cb \in BOOLEAN, admin_fee_cb \in BOOLEAN :
          IF ~paths_valid \/ (~dry_box /\ ~answer_yes)
          THEN UNCHANGED <<run_btn, t_pc, t_dry, t_accrual, t_admin>>
          ELSE /\ run_btn' = FALSE
               /\ t_dry' = dry_box /\ t_accrual' = accrual_cb /\ t_admin' = admin_fee_cb
               /\ t_pc' = "step1"
    /\ UNCHANGED <<master_ok, t_fees, fee_idx, sigq>>
    /\ UNCHANGED procVars

\* RunnerThread.run, lines 159-177: step 1 builds the AccrualUpdater with the thread's
\* dry_run and backup=True and calls process(), which raises when the master cannot be
\* used (accrual_updater.py 1022-1050)
WorkerAccrual ==
    /\ t_pc = "step1" /\ ppc = "idle"
    /\ IF ~t_accrual
       THEN /\ t_pc' = "step2"
            /\ UNCHANGED <<ppc, dry_run, backup, enable_ot_detection>>
       ELSE IF ~master_ok
       THEN /\ t_pc' = "raised"
            /\ UNCHANGED <<ppc, dry_run, backup, enable_ot_detection>>
       ELSE /\ dry_run' = t_dry /\ backup' = TRUE /\ enable_ot_detection' = TRUE
            /\ ppc' = "match"
            /\ UNCHANGED t_pc
    /\ UNCHANGED <<run_btn, master_ok, t_dry, t_accrual, t_admin, t_fees, fee_idx, sigq>>
    /\ UNCHANGED <<files, row_hourly, ab_pairs, fidx, updated, updated_count, failed_count,
                   no_match_count, run_log, master_cells, saved, backup_made>>

\* lines 178-180: process() has returned
WorkerAccrualDone ==
    /\ t_pc = "step1" /\ ppc = "saved"
    /\ t_pc' = "step2"
    /\ UNCHANGED <<run_btn, master_ok, t_dry, t_accrual, t_admin, t_fees, fee_idx, sigq>>
    /\ UNCHANGED procVars

\* lines 181-215: step 2 loads the master and lists the paysheets; with no paysheets
\* done_signal is emitted and run() returns
WorkerAdminOpen ==
    /\ t_pc = "step2"
    /\ IF ~t_admin THEN t_pc' = "done" /\ UNCHANGED sigq
       ELSE IF ~master_ok THEN t_pc' = "raised" /\ UNCHANGED sigq
       ELSE IF Len(files) = 0 THEN t_pc' = "finished" /\ sigq' = Emit(sigq, "done")
       ELSE t_pc' = "fees" /\ UNCHANGED sigq
    /\ UNCHANGED <<run_btn, master_ok, t_dry, t_accrual, t_admin, t_fees, fee_idx>>
    /\ UNCHANGED procVars

\* lines 219-245: one paysheet of step 2; a file without a number or a master row is
\* skipped, a fee > 0 is written to column T unless the run is a dry run
WorkerAdminFile ==
    /\ t_pc = "fees" /\ fee_idx < Len(files)
    /\ fee_idx' = fee_idx + 1
    /\ master_cells' =
          IF files[fee_idx + 1].has_num /\ files[fee_idx + 1].in_master
          THEN master_cells \cup FeeWrites(fee_idx + 1, t_dry, t_fees[fee_idx + 1])
          ELSE master_cells
    /\ UNCHANGED <<run_btn, master_ok, t_pc, t_dry, t_accrual, t_admin, t_fees, sigq>>
    /\ UNCHANGED <<files, enable_ot_detection, dry_run, backup, row_hourly, ab_pairs, fidx, ppc,
                   updated, updated_count, failed_count, no_match_count, run_log, saved,
                   backup_made>>

\* lines 246-251: the master is saved unless the run is a dry run; a failed save is
\* only logged
WorkerAdminSave ==
    /\ t_pc = "fees" /\ fee_idx = Len(files)
    /\ saved' \in (IF ~t_dry THEN {"master", saved} ELSE {saved})
    /\ t_pc' = "done"
    /\ UNCHANGED <<run_btn, master_ok, t_dry, t_accrual, t_admin, t_fees, fee_idx, sigq>>
    /\ UNCHANGED <<files, enable_ot_detection, dry_run, backup, row_hourly, ab_pairs, fidx, ppc,
                   updated, updated_count, failed_count, no_match_count, run_log, master_cells,
                   backup_made>>

\* line 252: self.done_signal.emit()
WorkerDone ==
    /\ t_pc = "done"
    /\ sigq' = Emit(sigq, "done")
    /\ t_pc' = "finished"
    /\ UNCHANGED <<run_btn, master_ok, t_dry, t_accrual, t_admin, t_fees, fee_idx>>
    /\ UNCHANGED procVars

\* lines 253-255: except Exception: the error is logged and error_signal is emitted
WorkerExcept ==
    /\ t_pc = "raised"
    /\ sigq' = Emit(sigq, "error")
    /\ t_pc' = "finished"
    /\ UNCHANGED <<run_btn, master_ok, t_dry, t_accrual, t_admin, t_fees, fee_idx>>
    /\ UNCHANGED procVars

\* line 447: the slot of done_signal, lambda: self.run_btn.setEnabled(True); no other
\* signal has a slot that touches the button
Deliver ==
    /\ sigq # <<>>
    /\ sigq' = Tail(sigq)
    /\ run_btn' = IF Head(sigq) = "done" THEN TRUE ELSE run_btn
    /\ UNCHANGED <<master_ok, t_pc, t_dry, t_accrual, t_admin, t_fees, fee_idx>>
    /\ UNCHANGED procVars

GuiIdle ==
    /\ run_btn = TRUE /\ master_ok = TRUE /\ t_pc = "none"
    /\ t_dry = FALSE /\ t_accrual = FALSE /\ t_admin = FALSE
    /\ t_fees = <<>> /\ fee_idx = 0 /\ sigq = <<>>

\* ----------------------- the rate of one period row under v17b and under v18b
VARIABLES
    q_window,              \* the label cells above the header, scan order
    q_row,                 \* a period row of the section
    q_target,              \* <<month, year>>
    q18, q17               \* the rate each generation applies to the row; -1: not yet run

equivVars == <<q_window, q_row, q_target, q18, q17>>

MaxEqLabels == 3

\* labels effective on day 1 of their month (one of them with an unusable rate), and
\* one static label
DayOneLabels ==
    { EffCell(12, 1, 2024, 70), EffCell(1, 1, 2025, 60), EffCell(3, 1, 2025, 80),
      EffCell(6, 1, 2025, 90), EffCell(7, 1, 2025, 100), EffCell(1, 1, 2026, 110),
      EffCell(6, 1, 2025, 0), StaticCell(50) }

EqTargets == { <<1, 2025>>, <<6, 2025>>, <<2, 2026>> }

\* the period rows of month m of year y: a week from day 1, the full month, a week
\* from day 16, a row without hours
EqRows(m, y) ==
    { RangeRow(m, 1, m, 7, y, 40), RangeRow(m, 1, m, 28, y, 160),
      RangeRow(m, 16, m, 22, y, 45), RangeRow(m, 16, m, 22, y, 0) }

\* a section with only a static rate is not billed
Rate18_NoStaticWalk(w, row, m, y) ==
    IF Timeline18(w) # <<>> THEN RowRate18(Timeline18(w), row, m, y) ELSE 0

\* admin_fee_module_v18b.py lines 177-291: the local rate of the row, from the dated
\* timeline when there is one, else from the static rate
Rate18(w, row, m, y) ==
    IF Timeline18(w) # <<>> THEN RowRate18(Timeline18(w), row, m, y)
    ELSE IF /\ find_static_admin_fee(w) > 0
            /\ row.kind = "range" /\ RowInTarget(row, m, y) /\ row.val > 0
         THEN find_static_admin_fee(w)
         ELSE 0

\* admin_fee_module.py lines 136-168: the one rate of the section, applied to a row of
\* the target month with hours
Rate17(w, row, m, y) ==
    IF RowInTarget(row, m, y) /\ row.val > 0
    THEN get_applicable_admin_fee(find_all_admin_fees_around_header(w), m, y)
    ELSE 0

EquivInit ==
    /\ q_window \in SeqsUpTo(DayOneLabels, MaxEqLabels)
    /\ q_target \in EqTargets
    /\ q_row \in EqRows(q_target[1], q_target[2])
    /\ q18 = -1 /\ q17 = -1

Apply18 ==
    /\ q18 = -1
    /\ q18' = Rate18(q_window, q_row, q_target[1], q_target[2])
    /\ UNCHANGED <<q_window, q_row, q_target, q17>>

Apply17 ==
    /\ q17 = -1
    /\ q17' = Rate17(q_window, q_row, q_target[1], q_target[2])
    /\ UNCHANGED <<q_window, q_row, q_target, q18>>

EquivIdle ==
    /\ q_window = <<>> /\ q_row = RangeRow(1, 1, 1, 1, 0, 0) /\ q_target = <<0, 0>>
    /\ q18 = -1 /\ q17 = -1

\* ------------------------------------------------ company_profiles.py: CompanyManager
VARIABLES
    profiles,              \* the dict, in insertion order: sequence of [key, prof]
    current,               \* a name, or "None"
    disk,                  \* company_profiles.json
    km_last                \* how the last call ended

companyVars == <<profiles, current, disk, km_last>>

MaxFileEntries == 2

ProfileNames == {"A", "B"}
Masters == {"m1", "m2"}

CompanyProfile(n, m) == [name |-> n, master |-> m]

\* ---- the dict of Python: keys in insertion order
Keys(d) == { d[i].key : i \in 1..Len(d) }
DictGet(d, k) == (CHOOSE i \in 1..Len(d) : d[i].key = k)
DictSet(d, k, v) ==
    IF k \in Keys(d)
    THEN [d EXCEPT ![DictGet(d, k)] = [key |-> k, prof |-> v]]
    ELSE Append(d, [key |-> k, prof |-> v])
DictDel(d, k) == SelectSeq(d, LAMBDA e : e.key # k)
\* next(iter(d), None)
FirstKey(d) == IF d = <<>> THEN "None" ELSE d[1].key

\* ---- the file: absent, not JSON, or a payload {"profiles": [...], "current": ...};
\* an entry of the list may lack "name"
FileEntry(has, n, m) == [has_name |-> has, name |-> n, master |-> m]
FileEntries ==
    { FileEntry(TRUE, n, m) : n \in ProfileNames, m \in Masters } \cup { FileEntry(FALSE, "", "m1") }
Payload(es, cur) == [kind |-> "json", entries |-> es, current |-> cur]
Absent == [kind |-> "absent", entries |-> <<>>, current |-> "None"]
Garbage == [kind |-> "garbage", entries |-> <<>>, current |-> "None"]

\* lines 29-38, 76-79: the payload save() writes
Saved(d, cur) ==
    Payload([i \in 1..Len(d) |-> FileEntry(TRUE, d[i].prof.name, d[i].prof.master)], cur)

\* line 66: {p["name"]: CompanyProfile.from_dict(p) for p in raw.get("profiles", [])}
RECURSIVE FromEntries(_, _, _)
FromEntries(es, i, d) ==
    IF i > Len(es) THEN d
    ELSE FromEntries(es, i + 1,
                     DictSet(d, es[i].name, CompanyProfile(es[i].name, es[i].master)))

\* the new profile is stored under the old key
Renamed_InPlace(d, name, prof) == DictSet(d, name, prof)

\* lines 110-113: the old key is deleted when the name changes, and the profile is
\* stored under its own name
Renamed(d, name, prof) ==
    DictSet(IF prof.name # name THEN DictDel(d, name) ELSE d, prof.name, prof)

\* save(): the payload is written, or open() raises and the file is as it was
SaveTo(d, cur) == {Saved(d, cur), disk}

CompanyInit ==
    /\ profiles = <<>> /\ current = "None"
    /\ disk \in {Absent, Garbage} \cup
                { Payload(es, cur) : es \in SeqsUpTo(FileEntries, MaxFileEntries),
                                     cur \in ProfileNames \cup {"None"} }
    /\ km_last = "init"

\* lines 58-72
Load ==
    /\ IF disk.kind = "absent" \/ disk.kind = "garbage"
          \/ \E i \in 1..Len(disk.entries) : ~disk.entries[i].has_name
       THEN profiles' = <<>> /\ current' = "None"
       ELSE LET d == FromEntries(disk.entries, 1, <<>>)
            IN  /\ profiles' = d
                /\ current' = IF disk.current \in Keys(d) THEN disk.current ELSE FirstKey(d)
    /\ km_last' = "load"
    /\ UNCHANGED disk

\* lines 94-97
SetCurrent ==
    \E name \in ProfileNames :
       /\ IF name \in Keys(profiles)
          THEN current' = name /\ disk' \in SaveTo(profiles, name)
          ELSE UNCHANGED <<current, disk>>
       /\ km_last' = "set_current"
       /\ UNCHANGED profiles

\* lines 99-104
AddProfile ==
    \E n \in ProfileNames, m \in Masters :
       IF n \in Keys(profiles)
       THEN /\ km_last' = "KeyError"
            /\ UNCHANGED <<profiles, current, disk>>
       ELSE /\ profiles' = DictSet(profiles, n, CompanyProfile(n, m))
            /\ current' = n
            /\ disk' \in SaveTo(DictSet(profiles, n, CompanyProfile(n, m)), n)
            /\ km_last' = "add"

\* lines 106-115
EditProfile ==
    \E name \in ProfileNames, n \in ProfileNames, m \in Masters :
       IF name \notin Keys(profiles)
       THEN /\ km_last' = "KeyError"
            /\ UNCHANGED <<profiles, current, disk>>
       ELSE /\ profiles' = Renamed(profiles, name, CompanyProfile(n, m))
            /\ current' = n
            /\ disk' \in SaveTo(Renamed(profiles, name, CompanyProfile(n, m)), n)
            /\ km_last' = IF n # name THEN "rename" ELSE "edit"

\* lines 117-122
DeleteProfile ==
    \E name \in ProfileNames :
       /\ IF name \in Keys(profiles)
          THEN LET d == DictDel(profiles, name)
                   cur == IF current = name THEN FirstKey(d) ELSE current
               IN  /\ profiles' = d
                   /\ current' = cur
                   /\ disk' \in SaveTo(d, cur)
          ELSE UNCHANGED <<profiles, current, disk>>
       /\ km_last' = "delete"

CompanyIdle ==
    /\ profiles = <<>> /\ current = "None" /\ disk = Absent
    /\ km_last = "idle"

\* ------------------------------------------------------- specifications
vars == <<feeVars, labelVars, billVars, parseVars, gridVars, amtVars, procVars, searchVars,
          callVars, guiVars, equivVars, companyVars>>

\* one section through calculate_admin_fee_for_paysheet (v18b or v17b)
Init ==
    FeeInit /\ LabelIdle /\ BillIdle /\ ParseIdle /\ GridIdle /\ AmtIdle /\ ProcIdle /\
        SearchIdle /\ CallIdle /\ GuiIdle /\ EquivIdle /\ CompanyIdle

Next ==
    \/ BuildTimeline /\ UNCHANGED <<labelVars, billVars, parseVars, gridVars, amtVars, procVars, searchVars,
           callVars, guiVars, equivVars, companyVars>>
    \/ EffRow /\ UNCHANGED <<labelVars, billVars, parseVars, gridVars, amtVars, procVars, searchVars,
           callVars, guiVars, equivVars, companyVars>>
    \/ StaticRow /\ UNCHANGED <<labelVars, billVars, parseVars, gridVars, amtVars, procVars, searchVars,
           callVars, guiVars, equivVars, companyVars>>
    \/ EndSection /\ UNCHANGED <<labelVars, billVars, parseVars, gridVars, amtVars, procVars, searchVars,
           callVars, guiVars, equivVars, companyVars>>
    \/ BuildTimeline17 /\ UNCHANGED <<labelVars, billVars, parseVars, gridVars, amtVars, procVars,
           searchVars, callVars, guiVars, equivVars, companyVars>>
    \/ Row17 /\ UNCHANGED <<labelVars, billVars, parseVars, gridVars, amtVars, procVars, searchVars,
           callVars, guiVars, equivVars, companyVars>>
    \/ EndSection17 /\ UNCHANGED <<labelVars, billVars, parseVars, gridVars, amtVars, procVars, searchVars,
           callVars, guiVars, equivVars, companyVars>>

Spec == Init /\ [][Next]_vars

\* one period label through the month filters and the OT classifier
LabelSpecInit ==
    LabelInit /\ FeeIdle /\ BillIdle /\ ParseIdle /\ GridIdle /\ AmtIdle /\ ProcIdle /\
        SearchIdle /\ CallIdle /\ GuiIdle /\ EquivIdle /\ CompanyIdle

LabelNext ==
    \/ ApplyMonthFilters /\ UNCHANGED <<feeVars, billVars, parseVars, gridVars, amtVars, procVars,
           searchVars, callVars, guiVars, equivVars, companyVars>>
    \/ ApplyDetectOt /\ UNCHANGED <<feeVars, billVars, parseVars, gridVars, amtVars, procVars, searchVars,
           callVars, guiVars, equivVars, companyVars>>

LabelSpec == LabelSpecInit /\ [][LabelNext]_vars

\* one sheet through calculate_billed_with_ot
BillSpecInit ==
    BillInit /\ FeeOff /\ LabelIdle /\ ParseIdle /\ GridIdle /\ AmtIdle /\ ProcIdle /\
        SearchIdle /\ CallIdle /\ GuiIdle /\ EquivIdle /\ CompanyIdle

BillNext ==
    \/ BillFindRates /\ UNCHANGED <<feeVars, labelVars, parseVars, gridVars, amtVars, procVars, searchVars,
           callVars, guiVars, equivVars, companyVars>>
    \/ BillFindHeader /\ UNCHANGED <<feeVars, labelVars, parseVars, gridVars, amtVars, procVars, searchVars,
           callVars, guiVars, equivVars, companyVars>>
    \/ BillWalkRow /\ UNCHANGED <<feeVars, labelVars, parseVars, gridVars, amtVars, procVars, searchVars,
           callVars, guiVars, equivVars, companyVars>>
    \/ BillReturn /\ UNCHANGED <<feeVars, labelVars, parseVars, gridVars, amtVars, procVars, searchVars,
           callVars, guiVars, equivVars, companyVars>>

BillSpec == BillSpecInit /\ [][BillNext]_vars

\* one cell text through the date parsers and safe_float
ParseSpecInit ==
    ParseInit /\ FeeIdle /\ LabelIdle /\ BillIdle /\ GridIdle /\ AmtIdle /\ ProcIdle /\
        SearchIdle /\ CallIdle /\ GuiIdle /\ EquivIdle /\ CompanyIdle

ParseNext ==
    \/ ApplyDateParsers /\ UNCHANGED <<feeVars, labelVars, billVars, gridVars, amtVars, procVars, searchVars,
           callVars, guiVars, equivVars, companyVars>>
    \/ ApplySafeFloat /\ UNCHANGED <<feeVars, labelVars, billVars, gridVars, amtVars, procVars, searchVars,
           callVars, guiVars, equivVars, companyVars>>

ParseSpec == ParseSpecInit /\ [][ParseNext]_vars

\* a sheet of several sections through calculate_admin_fee_for_paysheet (v18b)
GridSpecInit ==
    GridInit /\ LabelIdle /\ BillIdle /\ ParseIdle /\ AmtIdle /\ ProcIdle /\ SearchIdle /\
        CallIdle /\ GuiIdle /\ EquivIdle /\ CompanyIdle

GridNext ==
    \/ GridOpen /\ UNCHANGED <<labelVars, billVars, parseVars, amtVars, procVars, searchVars, callVars,
           guiVars, equivVars, companyVars>>
    \/ GridSection /\ UNCHANGED <<labelVars, billVars, parseVars, amtVars, procVars, searchVars, callVars,
           guiVars, equivVars, companyVars>>
    \/ BuildTimeline /\ UNCHANGED <<labelVars, billVars, parseVars, gridVars, amtVars, procVars, searchVars,
           callVars, guiVars, equivVars, companyVars>>
    \/ EffRow /\ UNCHANGED <<labelVars, billVars, parseVars, gridVars, amtVars, procVars, searchVars,
           callVars, guiVars, equivVars, companyVars>>
    \/ StaticRow /\ UNCHANGED <<labelVars, billVars, parseVars, gridVars, amtVars, procVars, searchVars,
           callVars, guiVars, equivVars, companyVars>>
    \/ EndSection /\ UNCHANGED <<labelVars, billVars, parseVars, gridVars, amtVars, procVars, searchVars,
           callVars, guiVars, equivVars, companyVars>>
    \/ GridReturn /\ UNCHANGED <<labelVars, billVars, parseVars, amtVars, procVars, searchVars, callVars,
           guiVars, equivVars, companyVars>>

GridSpec == GridSpecInit /\ [][GridNext]_vars

\* one Work Period section with a static rate, through either generation
WorkSpecInit ==
    WorkInit /\ LabelIdle /\ BillIdle /\ ParseIdle /\ AmtIdle /\ ProcIdle /\ SearchIdle /\
        CallIdle /\ GuiIdle /\ EquivIdle /\ CompanyIdle

WorkNext ==
    \/ GridOpen /\ UNCHANGED <<labelVars, billVars, parseVars, amtVars, procVars, searchVars, callVars,
           guiVars, equivVars, companyVars>>
    \/ GridSection /\ UNCHANGED <<labelVars, billVars, parseVars, amtVars, procVars, searchVars, callVars,
           guiVars, equivVars, companyVars>>
    \/ GridSection17 /\ UNCHANGED <<labelVars, billVars, parseVars, amtVars, procVars, searchVars, callVars,
           guiVars, equivVars, companyVars>>
    \/ BuildTimeline /\ UNCHANGED <<labelVars, billVars, parseVars, gridVars, amtVars, procVars, searchVars,
           callVars, guiVars, equivVars, companyVars>>
    \/ StaticRow /\ UNCHANGED <<labelVars, billVars, parseVars, gridVars, amtVars, procVars, searchVars,
           callVars, guiVars, equivVars, companyVars>>
    \/ EndSection /\ UNCHANGED <<labelVars, billVars, parseVars, gridVars, amtVars, procVars, searchVars,
           callVars, guiVars, equivVars, companyVars>>
    \/ BuildTimeline17 /\ UNCHANGED <<labelVars, billVars, parseVars, gridVars, amtVars, procVars,
           searchVars, callVars, guiVars, equivVars, companyVars>>
    \/ Row17 /\ UNCHANGED <<labelVars, billVars, parseVars, gridVars, amtVars, procVars, searchVars,
           callVars, guiVars, equivVars, companyVars>>
    \/ EndSection17 /\ UNCHANGED <<labelVars, billVars, parseVars, gridVars, amtVars, procVars, searchVars,
           callVars, guiVars, equivVars, companyVars>>
    \/ GridReturn /\ UNCHANGED <<labelVars, billVars, parseVars, amtVars, procVars, searchVars, callVars,
           guiVars, equivVars, companyVars>>

WorkSpec == WorkSpecInit /\ [][WorkNext]_vars

\* one workbook through find_amount_for_date_in_paysheet
AmtSpecInit ==
    AmtInit /\ FeeIdle /\ LabelIdle /\ BillIdle /\ ParseIdle /\ GridIdle /\ ProcIdle /\
        SearchIdle /\ CallIdle /\ GuiIdle /\ EquivIdle /\ CompanyIdle

AmtNext ==
    \/ AmtOpen /\ UNCHANGED <<feeVars, labelVars, billVars, parseVars, gridVars, procVars, searchVars,
           callVars, guiVars, equivVars, companyVars>>
    \/ AmtPreferredPass /\ UNCHANGED <<feeVars, labelVars, billVars, parseVars, gridVars, procVars,
           searchVars, callVars, guiVars, equivVars, companyVars>>
    \/ AmtFallbackPass /\ UNCHANGED <<feeVars, labelVars, billVars, parseVars, gridVars, procVars,
           searchVars, callVars, guiVars, equivVars, companyVars>>
    \/ AmtAdjustRow /\ UNCHANGED <<feeVars, labelVars, billVars, parseVars, gridVars, procVars, searchVars,
           callVars, guiVars, equivVars, companyVars>>
    \/ AmtReturn /\ UNCHANGED <<feeVars, labelVars, billVars, parseVars, gridVars, procVars, searchVars,
           callVars, guiVars, equivVars, companyVars>>

AmtSpec == AmtSpecInit /\ [][AmtNext]_vars

\* the paysheets of a folder through AccrualUpdater.process
ProcSpecInit ==
    ProcInit /\ FeeIdle /\ LabelIdle /\ BillIdle /\ ParseIdle /\ GridIdle /\ AmtIdle /\
        SearchIdle /\ CallIdle /\ GuiIdle /\ EquivIdle /\ CompanyIdle

ProcNext ==
    \/ ProcMatch /\ UNCHANGED <<feeVars, labelVars, billVars, parseVars, gridVars, amtVars, searchVars,
           callVars, guiVars, equivVars, companyVars>>
    \/ ProcTry /\ UNCHANGED <<feeVars, labelVars, billVars, parseVars, gridVars, amtVars, searchVars,
           callVars, guiVars, equivVars, companyVars>>
    \/ ProcSave /\ UNCHANGED <<feeVars, labelVars, billVars, parseVars, gridVars, amtVars, searchVars,
           callVars, guiVars, equivVars, companyVars>>

ProcSpec == ProcSpecInit /\ [][ProcNext]_vars

\* the labels around one header through the search and the timeline construction
SearchSpecInit ==
    SearchInit /\ LabelIdle /\ BillIdle /\ ParseIdle /\ GridIdle /\ AmtIdle /\ ProcIdle /\
        CallIdle /\ GuiIdle /\ EquivIdle /\ CompanyIdle

SearchNext ==
    \/ SearchLabels /\ UNCHANGED <<labelVars, billVars, parseVars, gridVars, amtVars, procVars, callVars,
           guiVars, equivVars, companyVars>>
    \/ BuildTimeline /\ UNCHANGED <<labelVars, billVars, parseVars, gridVars, amtVars, procVars, searchVars,
           callVars, guiVars, equivVars, companyVars>>
    \/ EndSection /\ UNCHANGED <<labelVars, billVars, parseVars, gridVars, amtVars, procVars, searchVars,
           callVars, guiVars, equivVars, companyVars>>
    \/ BuildTimeline17 /\ UNCHANGED <<labelVars, billVars, parseVars, gridVars, amtVars, procVars,
           searchVars, callVars, guiVars, equivVars, companyVars>>
    \/ EndSection17 /\ UNCHANGED <<labelVars, billVars, parseVars, gridVars, amtVars, procVars, searchVars,
           callVars, guiVars, equivVars, companyVars>>

SearchSpec == SearchSpecInit /\ [][SearchNext]_vars

\* a sheet through the header scan and the loop over the headers found
HeaderSpecInit ==
    HeaderInit /\ LabelIdle /\ BillIdle /\ ParseIdle /\ AmtIdle /\ ProcIdle /\ CallIdle /\
        GuiIdle /\ EquivIdle /\ CompanyIdle

HeaderNext ==
    \/ ScanHeaders /\ UNCHANGED <<labelVars, billVars, parseVars, amtVars, procVars, callVars, guiVars,
           equivVars, companyVars>>
    \/ NextAnchor /\ UNCHANGED <<labelVars, billVars, parseVars, amtVars, procVars, callVars, guiVars,
           equivVars, companyVars>>
    \/ AnchorsDone /\ UNCHANGED <<labelVars, billVars, parseVars, amtVars, procVars, callVars, guiVars,
           equivVars, companyVars>>

HeaderSpec == HeaderSpecInit /\ [][HeaderNext]_vars

\* one Work Period section through the module and through the caller that unpacks the result
CallSpecInit ==
    CallInit /\ LabelIdle /\ BillIdle /\ ParseIdle /\ AmtIdle /\ ProcIdle /\ SearchIdle /\
        GuiIdle /\ EquivIdle /\ CompanyIdle

CallNext ==
    \/ GridOpen /\ UNCHANGED <<labelVars, billVars, parseVars, amtVars, procVars, searchVars, callVars,
           guiVars, equivVars, companyVars>>
    \/ GridSection /\ UNCHANGED <<labelVars, billVars, parseVars, amtVars, procVars, searchVars, callVars,
           guiVars, equivVars, companyVars>>
    \/ GridSection17 /\ UNCHANGED <<labelVars, billVars, parseVars, amtVars, procVars, searchVars, callVars,
           guiVars, equivVars, companyVars>>
    \/ BuildTimeline /\ UNCHANGED <<labelVars, billVars, parseVars, gridVars, amtVars, procVars, searchVars,
           callVars, guiVars, equivVars, companyVars>>
    \/ StaticRow /\ UNCHANGED <<labelVars, billVars, parseVars, gridVars, amtVars, procVars, searchVars,
           callVars, guiVars, equivVars, companyVars>>
    \/ EndSection /\ UNCHANGED <<labelVars, billVars, parseVars, gridVars, amtVars, procVars, searchVars,
           callVars, guiVars, equivVars, companyVars>>
    \/ BuildTimeline17 /\ UNCHANGED <<labelVars, billVars, parseVars, gridVars, amtVars, procVars,
           searchVars, callVars, guiVars, equivVars, companyVars>>
    \/ Row17 /\ UNCHANGED <<labelVars, billVars, parseVars, gridVars, amtVars, procVars, searchVars,
           callVars, guiVars, equivVars, companyVars>>
    \/ EndSection17 /\ UNCHANGED <<labelVars, billVars, parseVars, gridVars, amtVars, procVars, searchVars,
           callVars, guiVars, equivVars, companyVars>>
    \/ GridReturn /\ UNCHANGED <<labelVars, billVars, parseVars, amtVars, procVars, searchVars, callVars,
           guiVars, equivVars, companyVars>>
    \/ WrapperUnpack /\ UNCHANGED <<labelVars, billVars, parseVars, amtVars, procVars, searchVars, guiVars,
           equivVars, companyVars>>
    \/ GuiUnpack /\ UNCHANGED <<labelVars, billVars, parseVars, amtVars, procVars, searchVars, guiVars,
           equivVars, companyVars>>

CallSpec == CallSpecInit /\ [][CallNext]_vars

\* one click of Run: the worker thread with both steps, and the slots of its signals
GuiSpecInit ==
    GuiInit /\ FeeIdle /\ LabelIdle /\ BillIdle /\ ParseIdle /\ GridIdle /\ AmtIdle /\
        SearchIdle /\ CallIdle /\ EquivIdle /\ CompanyIdle

GuiNext ==
    \/ ClickRun /\ UNCHANGED <<feeVars, labelVars, billVars, parseVars, gridVars, amtVars, searchVars,
           callVars, equivVars, companyVars>>
    \/ WorkerAccrual /\ UNCHANGED <<feeVars, labelVars, billVars, parseVars, gridVars, amtVars, searchVars,
           callVars, equivVars, companyVars>>
    \/ ProcMatch /\ UNCHANGED <<feeVars, labelVars, billVars, parseVars, gridVars, amtVars, searchVars,
           callVars, guiVars, equivVars, companyVars>>
    \/ ProcTry /\ UNCHANGED <<feeVars, labelVars, billVars, parseVars, gridVars, amtVars, searchVars,
           callVars, guiVars, equivVars, companyVars>>
    \/ ProcSave /\ UNCHANGED <<feeVars, labelVars, billVars, parseVars, gridVars, amtVars, searchVars,
           callVars, guiVars, equivVars, companyVars>>
    \/ WorkerAccrualDone /\ UNCHANGED <<feeVars, labelVars, billVars, parseVars, gridVars, amtVars,
           searchVars, callVars, equivVars, companyVars>>
    \/ WorkerAdminOpen /\ UNCHANGED <<feeVars, labelVars, billVars, parseVars, gridVars, amtVars, searchVars,
           callVars, equivVars, companyVars>>
    \/ WorkerAdminFile /\ UNCHANGED <<feeVars, labelVars, billVars, parseVars, gridVars, amtVars, searchVars,
           callVars, equivVars, companyVars>>
    \/ WorkerAdminSave /\ UNCHANGED <<feeVars, labelVars, billVars, parseVars, gridVars, amtVars, searchVars,
           callVars, equivVars, companyVars>>
    \/ WorkerDone /\ UNCHANGED <<feeVars, labelVars, billVars, parseVars, gridVars, amtVars, searchVars,
           callVars, equivVars, companyVars>>
    \/ WorkerExcept /\ UNCHANGED <<feeVars, labelVars, billVars, parseVars, gridVars, amtVars, searchVars,
           callVars, equivVars, companyVars>>
    \/ Deliver /\ UNCHANGED <<feeVars, labelVars, billVars, parseVars, gridVars, amtVars, searchVars,
           callVars, equivVars, companyVars>>

GuiSpec == GuiSpecInit /\ [][GuiNext]_vars

\* the thread is scheduled and the event loop delivers the queued signals
GuiRun == t_pc # "none" /\ GuiNext

GuiLiveSpec == GuiSpec /\ WF_vars(GuiRun)

\* one period row and one window of labels through the rate rules of both generations
EquivSpecInit ==
    EquivInit /\ FeeIdle /\ LabelIdle /\ BillIdle /\ ParseIdle /\ GridIdle /\ AmtIdle /\
        ProcIdle /\ SearchIdle /\ CallIdle /\ GuiIdle /\ CompanyIdle

EquivNext ==
    \/ Apply18 /\ UNCHANGED <<feeVars, labelVars, billVars, parseVars, gridVars, amtVars, procVars,
           searchVars, callVars, guiVars, companyVars>>
    \/ Apply17 /\ UNCHANGED <<feeVars, labelVars, billVars, parseVars, gridVars, amtVars, procVars,
           searchVars, callVars, guiVars, companyVars>>

EquivSpec == EquivSpecInit /\ [][EquivNext]_vars

\* any sequence of calls on one CompanyManager
CompanySpecInit ==
    CompanyInit /\ FeeIdle /\ LabelIdle /\ BillIdle /\ ParseIdle /\ GridIdle /\ AmtIdle /\
        ProcIdle /\ SearchIdle /\ CallIdle /\ GuiIdle /\ EquivIdle

CompanyNext ==
    \/ Load /\ UNCHANGED <<feeVars, labelVars, billVars, parseVars, gridVars, amtVars, procVars, searchVars,
           callVars, guiVars, equivVars>>
    \/ SetCurrent /\ UNCHANGED <<feeVars, labelVars, billVars, parseVars, gridVars, amtVars, procVars,
           searchVars, callVars, guiVars, equivVars>>
    \/ AddProfile /\ UNCHANGED <<feeVars, labelVars, billVars, parseVars, gridVars, amtVars, procVars,
           searchVars, callVars, guiVars, equivVars>>
    \/ EditProfile /\ UNCHANGED <<feeVars, labelVars, billVars, parseVars, gridVars, amtVars, procVars,
           searchVars, callVars, guiVars, equivVars>>
    \/ DeleteProfile /\ UNCHANGED <<feeVars, labelVars, billVars, parseVars, gridVars, amtVars, procVars,
           searchVars, callVars, guiVars, equivVars>>

CompanySpec == CompanySpecInit /\ [][CompanyNext]_vars

\* =========================================================== the claims
\* chronological order of (month, day, year) dates
DateLeq(a, b) ==
    \/ a[3] < b[3]
    \/ a[3] = b[3] /\ a[1] < b[1]
    \/ a[3] = b[3] /\ a[1] = b[1] /\ a[2] <= b[2]

DateLess(a, b) == DateLeq(a, b) /\ a # b

\* the row the walk has just handled
Walked == pc \in {"eff_walk", "static_walk", "walk17"} /\ r > 0
CurRow == rows[r]

\* the dated entries the labels of the window give, in the order the code lists them
Dated == find_admin_fee_eff(window)

\* the dated entries in force on date d that no other dated entry supersedes by d
InForce(d) ==
    { i \in 1..Len(Dated) :
        /\ DateLeq(Dated[i][1], d)
        /\ \A j \in 1..Len(Dated) :
              DateLeq(Dated[j][1], d) =>
                  \/ DateLess(Dated[j][1], Dated[i][1])
                  \/ Dated[j][1] = Dated[i][1] /\ j <= i }

\* the walked row was given the rate that get_rate_for_date resolves at its first day
ResolvedAtStart ==
    /\ gen = "v18b" /\ Walked /\ pc = "eff_walk"
    /\ branch \in {"start_date", "single"}

\* C1: resolving at a date D returns the rate of the dated entry d2 with d2 <= D that
\* no later dated entry supersedes by D (d2 <= D < d3), with or without a static rate
\* in front of the dated entries.
C1_ResolvesLatestDated ==
    ResolvedAtStart => \A i \in InForce(CurRow.start) : rate = Dated[i][2]

\* the month-M, day > 1 dated entries of the timeline, whatever their year
MidMonthAnyYear(m) == { i \in 1..Len(Dated) : Dated[i][1][1] = m /\ Dated[i][1][2] > 1 }

\* the dated entries that lie in the calendar month (m, y) after its first day
MidMonthOf(m, y) == { i \in MidMonthAnyYear(m) : Dated[i][1][3] = y }

FullMonthRow(row) ==
    row.kind = "range" /\ row.start[2] = 1 /\ row.end[2] >= 28 /\ row.start[1] = row.end[1]

\* a full-month row of the target month with hours has just been walked in a section
\* that has a static rate R0 and exactly one mid-month dated entry R1, of the row's month
C2_Case ==
    /\ gen = "v18b" /\ Walked /\ pc = "eff_walk"
    /\ FullMonthRow(CurRow) /\ RowInTarget(CurRow, month, year) /\ CurRow.val > 0
    /\ static_rate > 0
    /\ Cardinality(MidMonthAnyYear(month)) = 1
    /\ MidMonthOf(month, year) # {}

\* C2: a row that starts on day 1 and ends on day >= 28 of month M, in a section with
\* a static rate R0 and a dated entry R1 effective after the 1st of M, is billed at R1
\* for all of its hours.
C2_FullMonthOverride ==
    [][ (C2_Case /\ r = 1)' =>
          \A i \in MidMonthOf(month, year) :
              /\ rate' = Dated[i][2]
              /\ section_fee' = section_fee + CurRow'.val * Dated[i][2]
              /\ section_hours' = section_hours + CurRow'.val ]_vars

C2_Witness ==
    /\ C2_Case /\ r = 1 /\ branch = "full_month"
    /\ rate = 90 /\ static_rate = 50 /\ section_fee = 160 * 90

\* the rate the v18b section walk applies to a row, for a given search window
AppliedRate18(w, row, m, y) ==
    IF Timeline18(w) # <<>> THEN RowRate18(Timeline18(w), row, m, y)
    ELSE IF find_static_admin_fee(w) > 0
              /\ row.kind = "range" /\ RowInTarget(row, m, y) /\ row.val > 0
         THEN find_static_admin_fee(w)
         ELSE 0

EndDays == {7, 14, 22, 27, 28, 30}

\* C3: a row that is not a full-month span gets the rate resolved at its start date
\* alone: another end date (still not a full month), or one more dated entry
\* effective after the start date, leaves the rate applied to the row unchanged.
C3_StartDateOnly ==
    ( /\ gen = "v18b" /\ Walked /\ CurRow.kind = "range"
      /\ ~FullMonthRow(CurRow) /\ RowInTarget(CurRow, month, year) /\ CurRow.val > 0 )
    =>
    /\ \A em \in {CurRow.start[1], CurRow.start[1] + 1}, ed \in EndDays :
          LET other == [CurRow EXCEPT !.end = <<em, ed, CurRow.start[3]>>]
          IN  ~FullMonthRow(other) => AppliedRate18(window, other, month, year) = rate
    /\ \A c \in LabelCells, k \in 0..Len(window) :
          (c.kind = "eff" /\ DateLess(CurRow.start, c.date)) =>
              AppliedRate18(InsertAt(window, k, c), CurRow, month, year) = rate

\* C4: the full-month branch is taken only when a dated entry lies in the row's own
\* calendar month (same month, same year) after day 1, and the rate is that of the
\* latest such entry.
C4_OverrideOwnMonthOnly ==
    (gen = "v18b" /\ Walked /\ branch = "full_month") =>
        /\ MidMonthOf(month, year) # {}
        /\ \A i \in MidMonthOf(month, year) :
              (\A j \in MidMonthOf(month, year) :
                    \/ DateLess(Dated[j][1], Dated[i][1])
                    \/ Dated[j][1] = Dated[i][1] /\ j <= i)
              => rate = Dated[i][2]

\* a static label with a positive rate is in the window
HasStatic == \E i \in 1..Len(window) : window[i].kind = "static" /\ window[i].rate > 0

\* C5: with a static rate and no dated entry effective on or before the target, the
\* resolved rate is the static rate: v18b at the period's start date, v17b at the
\* target (year, month).
C5_StaticFallback ==
    /\ ( /\ gen = "v18b" /\ Walked /\ branch \in {"start_date", "single", "static"}
         /\ HasStatic
         /\ \A i \in 1..Len(Dated) : ~DateLeq(Dated[i][1], CurRow.start) )
       => rate = find_static_admin_fee(window)
    /\ ( /\ gen = "v17b" /\ pc # "start" /\ HasStatic
         /\ \A i \in 1..Len(Dated) :
               ~TupleLeq(<<Dated[i][1][3], Dated[i][1][1], 0>>, <<year, month, 0>>) )
       => admin_fee_rate > 0 /\
          \E i \in 1..Len(window) :
              window[i].kind = "static" /\ window[i].rate = admin_fee_rate

\* C6: the timeline handed to the resolver is ascending by (year, month, day) and has
\* at most one static entry.
C6_TimelineSorted ==
    (gen \in {"v18b", "v17b"} /\ pc # "start") =>
        /\ \A i, j \in 1..Len(admin_fees_list) :
              i < j => DateLeq(admin_fees_list[i][1], admin_fees_list[j][1])
        /\ Cardinality({ i \in 1..Len(admin_fees_list) :
                           admin_fees_list[i][1] = NoDate }) <= 1

\* the trimmed, upper-cased label ends with OT right after a hyphen or a blank
EndsWithOtToken(l) ==
    LET u == Strip(UpperStr(l))
        n == Len(u)
    IN  /\ n >= 3
        /\ u[n - 1] = "O" /\ u[n] = "T"
        /\ u[n - 2] = "-" \/ IsSpace(u[n - 2])

\* the row of the first header cell
FirstHeader == CHOOSE h \in HeaderRows(sheet) : \A g \in HeaderRows(sheet) : h <= g

\* C7: a row whose period does not start in the target month of the target year adds
\* nothing to the totals, in the OT billing walk (the rows under the header) and in
\* the admin-fee section walks.
C7_OnlyTargetMonthYear ==
    [][ /\ ( /\ bpc = "walk" /\ bill_row < Len(sheet) /\ bill_row + 1 > FirstHeader
             /\ sheet[bill_row + 1].period # <<month, year>> )
           => total_billed' = total_billed
        /\ ( /\ pc \in {"eff_walk", "static_walk", "walk17"} /\ r < Len(rows)
             /\ ~RowInTarget(rows[r + 1], month, year) )
           => section_hours' = section_hours /\ section_fee' = section_fee ]_vars

\* the rows under the header that pass the row tests, each at the rate of its class
RECURSIVE BilledFrom(_, _)
BilledFrom(sh, i) ==
    IF i > Len(sh) THEN 0
    ELSE BilledFrom(sh, i + 1) +
         (IF Billable(sh[i], month)
          THEN sh[i].hrs * (IF EndsWithOtToken(sh[i].txt) THEN ot_rate ELSE total_rate)
          ELSE 0)

\* C9: with a Total Rate and an OT Rate found, the billed total is the sum, over the
\* matching rows of the section, of hours x OT Rate for the overtime rows and
\* hours x Total Rate for the others.
C9_BilledByClass ==
    bpc = "done" => total_billed = BilledFrom(sheet, FirstHeader + 1)

\* the first run of digits of the text, read as a month when it has one or two digits
LeadingMonth(l) ==
    LET pos == { i \in 1..Len(l) : IsDigit(l[i]) }
    IN  IF pos = {} THEN NoToken
        ELSE LET i == CHOOSE k \in pos : \A q \in pos : k <= q
                 two == i + 1 <= Len(l) /\ IsDigit(l[i + 1])
                 three == i + 2 <= Len(l) /\ IsDigit(l[i + 1]) /\ IsDigit(l[i + 2])
             IN  IF three THEN NoToken
                 ELSE IF two THEN 10 * DigitVal(l[i]) + DigitVal(l[i + 1])
                 ELSE DigitVal(l[i])

\* C8: a label whose leading numeric token is a month other than the target month M
\* passes neither the month filter of calculate_billed_with_ot nor that of
\* parse_paysheet, whatever tokens follow.
C8_AnchoredMonthFilter ==
    (lpc \in {"filtered", "done"}
        /\ LeadingMonth(lbl) \in 1..NumMonths /\ LeadingMonth(lbl) # tm)
    => ~ot_match /\ ~bc_match

\* "01/06-01/12/2025" against month 6
C8_Witness ==
    /\ lpc = "filtered" /\ lbl = FmtRange(1, 6, 1, 12, 2025) /\ tm = 6
    /\ ~ot_match /\ ~bc_match

\* C10: detect_ot_suffix is true exactly for the labels that end, once trimmed and
\* upper-cased, with an OT token set off by a hyphen or by whitespace; "-OTHER" and a
\* label without suffix are not overtime.
C10_OtSuffixExact ==
    lpc = "done" => (is_ot <=> EndsWithOtToken(lbl))

C10_Witness ==
    /\ lpc = "done" /\ lbl = FmtRange(6, 1, 6, 7, 2025) \o <<" ", "-", " ", "O", "T">>
    /\ is_ot

\* the sum of the positive hours of the rows of the sheet whose period starts in (m, y)
RECURSIVE HoursOfPeriod(_, _, _)
HoursOfPeriod(g, m, y) ==
    IF g = <<>> THEN 0
    ELSE HoursOfPeriod(Tail(g), m, y) +
         (IF Head(g).period = <<m, y>> /\ Head(g).val > 0 THEN Head(g).val ELSE 0)

\* C11: a Work Period section with a static rate R only totals the positive hours of
\* the rows whose period starts in the target month and year, and R times these hours;
\* an OT suffix on a label changes neither which rows count nor the rate.
C11_StaticWorkPeriod ==
    (g_pc = "done" /\ g_access = "ok") =>
        /\ g_out.value[1] = HoursOfPeriod(grid, month, year)
        /\ g_out.value[3] = window[1].rate * HoursOfPeriod(grid, month, year)

\* 40 h and 45 h (the second row with an OT suffix) at 50: 85 h, 4250.00
C11_Witness ==
    /\ g_pc = "done" /\ g_access = "ok"
    /\ \E i \in 1..Len(grid) :
          grid[i].period = <<month, year>> /\ detect_ot_suffix(grid[i].txt)
    /\ g_out.value[1] = 85 /\ g_out.value[3] = 4250

\* C12: every span the range parser returns has its start date on or before its end
\* date, also for a range that starts in December and ends in January.
C12_SpanOrdered ==
    (p_pc # "input" /\ p_span # NoSpan) => DateLeq(p_span[1], p_span[2])

\* the two single-date parsers' result the claim states for the text of p_in
C13_Expected == p_in.date

\* C13: a valid date written MM/DD/YYYY or MM/DD/YY comes back from the single-date
\* parsers as the same (month, day, year), every two-digit year YY as 2000 + YY.
C13_SingleDateRoundTrip ==
    ( /\ p_pc # "input" /\ p_in.kind = "date"
      /\ p_in.style \in {"MM/DD/YYYY", "MM/DD/YY"}
      /\ ValidDate(p_in.date[1], p_in.date[2], p_in.date[3]) ) =>
        p_single = C13_Expected /\ p_norm = C13_Expected

\* first row after the header h whose cell in the header's column names a terminator
FirstTerminator(g, h) ==
    LET stops == { i \in (h.row + 1)..Len(g) : IsTerminator(CellTxt(g, i, h.col)) }
    IN  IF stops = {} THEN Len(g) + 1 ELSE CHOOSE i \in stops : \A j \in stops : i <= j

\* C14: the section walk adds no row at or after the first terminator row of the
\* section, and in a section that is not the last one no row within five rows of the
\* next header, whatever the header column holds there.
C14_SectionBoundary ==
    [][ (gen = "v18b" /\ g_pc = "sections" /\ section_hours' > section_hours) =>
            /\ headers[g_idx].row + r + 1 < FirstTerminator(grid, headers[g_idx])
            /\ g_idx < Len(headers) =>
                   headers[g_idx].row + r + 1 < headers[g_idx + 1].row - GuardBand
      ]_vars

\* a section that is not the last has counted one row and left out another
C14_Witness ==
    /\ g_pc = "done" /\ Len(headers) = 2 /\ total_hours = 40
    /\ Cardinality({ i \in 1..Len(grid) : grid[i].period = <<6, 2025>> }) >= 2

\* the rate the section resolves for a row that starts on day d
C15_ResolvedRate(d) ==
    IF Timeline18(window) # <<>> THEN get_rate_for_date(Timeline18(window), d)
    ELSE find_static_admin_fee(window)

\* C15: a single-date row of the target month and year with a positive amount, in a
\* section whose dated entries or static rate resolve to a positive rate, adds exactly
\* its amount to the fee and 1 to the hours.
C15_SingleDateRow ==
    ( /\ gen = "v18b" /\ pc = "done" /\ r = 1
      /\ rows[1].kind = "single" /\ RowInTarget(rows[1], month, year)
      /\ rows[1].val > 0 /\ C15_ResolvedRate(rows[1].start) > 0 ) =>
        total_admin_fee = rows[1].val /\ total_hours = 1

\* C18: safe_float gives 0 for None, for the empty text and for a text without a digit,
\* ignores "$" and ",", and gives the negated number for a number in parentheses.
C18_SafeFloatTotal ==
    p_pc = "done" =>
        /\ p_in.cell = NoneCell => p_sf = Zero
        /\ (p_in.kind = "raw" /\ p_in.style = "text"
              /\ \A i \in 1..Len(p_in.txt) : ~IsDigit(p_in.txt[i])) => p_sf = Zero
        /\ p_in.kind = "money" => SameValue(p_sf, p_in.amount)

\* "$(1,234.56)" gives -1234.56
C18_Witness ==
    /\ p_pc = "done" /\ p_in.kind = "money"
    /\ p_in.txt = <<"$", "(", "1", ",", "2", "3", "4", ".", "5", "6", ")">>
    /\ p_sf = Decimal(0 - 123456, 2)

\* C20: when the paysheet cannot be opened, the admin-fee call ends in a failure that
\* the caller can tell from a computed zero.
C20_HardFailureSignalled ==
    (g_pc = "done" /\ g_access = "error") => g_out.raised

\* the cell in column c of row i names an adjustment
KeywordAt(sh, i, c) ==
    /\ sh.rows[i].txt # <<>> /\ sh.rows[i].col = c
    /\ \/ Contains(LowerStr(sh.rows[i].txt), <<"r", "e", "t", "r", "o">>)
       \/ Contains(LowerStr(sh.rows[i].txt), <<"a", "c", "h">>)

\* the amount in column c + 1 of row i, 0 when the sheet has no such cell
AmountRightOf(sh, i, c) ==
    IF sh.rows[i].txt # <<>> /\ sh.rows[i].col = c /\ c + 1 < sh.ncols
    THEN sh.rows[i].val ELSE 0

\* the amounts of the unbroken run of adjustment rows that starts at row i
RECURSIVE RunAmounts(_, _, _)
RunAmounts(sh, i, c) ==
    IF i <= Len(sh.rows) /\ KeywordAt(sh, i, c)
    THEN AmountRightOf(sh, i, c) + RunAmounts(sh, i + 1, c)
    ELSE 0

\* C16: with the date found at (r, c), the lookup returns the amount at (r, c + 1) plus
\* the amounts at c + 1 of the unbroken run of rows below whose cell in column c
\* contains 'retro' or 'ach'; rows after the run add nothing, and the loop never looks
\* past the last row.
C16_BasePlusAdjustments ==
    /\ a_hit # NoHit => a_nr <= Len(a_book[a_hit[1]].rows) + 1
    /\ (a_pc = "done" /\ a_hit # NoHit) =>
          a_out = Returned(AmountRightOf(a_book[a_hit[1]], a_hit[2], a_hit[3])
                           + RunAmounts(a_book[a_hit[1]], a_hit[2] + 1, a_hit[3]))

\* 100 and one Retro row of 30 give 130; the row after the run is left out
C16_Witness ==
    /\ a_pc = "done" /\ a_hit = <<1, 1, 6>> /\ a_out = Returned(130)
    /\ Len(a_book[1].rows) = 3 /\ a_book[1].rows[3].val > 0

\* the columns of sheet sh, among cols, in which some row holds the target date
ColsWithDate(sh, cols) ==
    { c \in cols : c < sh.ncols /\
        \E i \in 1..Len(sh.rows) :
            sh.rows[i].txt # <<>> /\ sh.rows[i].col = c /\ sh.rows[i].date = TargetDate }

\* C17: in the first sheet that holds the target date in a scanned column (4..8), a
\* match in column 6 or 7 is the one used, also when column 4, 5 or 8 holds the date in
\* an earlier row; when no scanned cell of any sheet holds the date, the lookup returns
\* 0 and raises nothing.
C17_PreferredFirst ==
    a_pc = "done" /\ a_ok =>
        LET with == { k \in 1..Len(a_book) : ColsWithDate(a_book[k], 4..8) # {} }
        IN  IF with = {} THEN a_hit = NoHit /\ a_out = Returned(0)
            ELSE /\ a_hit[1] = CHOOSE k \in with : \A o \in with : k <= o
                 /\ ~a_out.raised
                 /\ ColsWithDate(a_book[a_hit[1]], {6, 7}) # {} => a_hit[3] \in {6, 7}

\* the date is in column 5 of row 1 and in column 6 of a later row: column 6 is used
C17_Witness ==
    /\ a_pc = "done" /\ a_hit[1] = 1 /\ a_hit[2] > 1 /\ a_hit[3] = 6
    /\ a_book[1].rows[1].col = 5 /\ a_book[1].rows[1].date = TargetDate

\* the files the loop has handed to the try block
Tried == { i \in 1..fidx : files[i].has_num /\ files[i].in_master /\ (i < fidx \/ ppc # "try") }

PositiveLabels == { i \in 1..Len(window) : window[i].rate > 0 }

\* the timeline of the section has been built from the labels found
TimelineBuilt == gen \in {"v18b", "v17b"} /\ pc \notin {"idle", "start"}

\* C21: every entry of a rate timeline has a strictly positive rate; a dated or static
\* label whose adjacent cell coerces to a value <= 0 produces no entry (and no static
\* rate), in v18b and in v17b.
C21_PositiveRates ==
    TimelineBuilt =>
        /\ \A i \in 1..Len(admin_fees_list) :
              /\ admin_fees_list[i][2] > 0
              /\ \E k \in PositiveLabels : window[k].rate = admin_fees_list[i][2]
        /\ Len(admin_fees_list) <= Cardinality(PositiveLabels)
        /\ static_rate >= 0
        /\ static_rate > 0 =>
              \E k \in PositiveLabels :
                  window[k].kind = "static" /\ window[k].rate = static_rate

\* a dated label with -5 next to it is in the window, and only the other label, Eff
\* 06/15/2025 at 90, gave an entry
C21_Witness ==
    /\ TimelineBuilt /\ s_sheet # EmptySheet
    /\ \E k \in 1..Len(window) :
          window[k].kind = "eff" /\ window[k].date = <<3, 1, 2025>> /\ window[k].rate < 0
    /\ admin_fees_list = << <<<<6, 15, 2025>>, 90>> >>

\* C22: the row walk of an aggregation starts at the row right after the section
\* header's row, whatever the header's column: the OT billing walk enters its loop with
\* the row pointer on the row below the first header (rows are numbered from 0 in
\* bill_row, from 1 in FirstHeader).
C22_WalkStartsAfterAnchor ==
    [][ (bpc = "header" /\ bpc' = "walk") => bill_row' = FirstHeader ]_vars

\* the admin-fee labels of the sheet, with a cell to their right, that lie within
\* search_rows rows above or below the header row
LabelsNearHeader ==
    { x \in s_sheet.cells :
        /\ LabelKind(x.v) # "none" /\ x.c + 1 < s_sheet.ncols
        /\ x.r # s_hdr
        /\ x.r - s_hdr <= search_rows /\ s_hdr - x.r <= search_rows }

\* C23: a rate label is found whenever it lies within 10 rows above or within 10 rows
\* below the header row (the 10th row in each direction included), and no label is
\* taken from outside that window: the labels found are exactly those near the header.
C23_WindowedSearch ==
    (TimelineBuilt /\ s_sheet # EmptySheet) =>
        /\ Len(window) = Cardinality(LabelsNearHeader)
        /\ \A x \in LabelsNearHeader :
              \E k \in 1..Len(window) : window[k] = LabelAt(s_sheet, x.r, x.c)

\* the cell is a section header as the running generation tests it
IsHeaderCell(rw, c) ==
    IF gen = "v18b" THEN IsHeader18(s_sheet, rw, c) ELSE IsHeader17(s_sheet, rw, c)

\* C24: the header scan yields at most one anchor per row, the first matching column
\* of that row, in strictly increasing row order; the next anchor row used for a
\* section is greater than the section's own anchor row.
C24_OneAnchorPerRow ==
    (s_sheet # EmptySheet /\ g_pc \in {"sections", "done"}) =>
        /\ \A i, j \in 1..Len(headers) : i < j => headers[i].row < headers[j].row
        /\ \A i \in 1..Len(headers) :
              /\ IsHeaderCell(headers[i].row, headers[i].col)
              /\ \A c \in 0..(headers[i].col - 1) : ~IsHeaderCell(headers[i].row, c)
        /\ g_idx > 0 => s_hdr = headers[g_idx].row /\ s_next > s_hdr

\* a row holds the header twice (columns 0 and 1), another header follows two rows
\* below: two anchors, the first in column 0, and the first section's next anchor row
\* is 2
C24_Witness ==
    /\ g_pc = "sections" /\ g_idx = 1 /\ s_hdr = 0 /\ s_next = 2
    /\ IsHeaderCell(0, 0) /\ IsHeaderCell(0, 1)
    /\ Len(headers) = 2 /\ headers[1].col = 0

\* C25: the value a consumer of calculate_admin_fee_for_paysheet reports and tests as
\* the total admin fee is the module's computed total fee, for each caller that
\* unpacks the returned triple.
C25_FeePositionAgrees ==
    c_pc = "reported" => c_fee = total_admin_fee /\ c_shown = (total_admin_fee > 0)

\* C26: when process() returns on a fresh instance, updated_count + no_match_count +
\* failed_count is the number of paysheets found, and so far every paysheet the loop has
\* finished with has incremented exactly one counter (no file number, not in master,
\* success, exception).
C26_CountersPartition ==
    /\ ppc \in {"match", "try", "saved"} =>
          updated_count + no_match_count + failed_count
              = (IF ppc = "try" THEN fidx - 1 ELSE fidx)
    /\ ppc = "saved" =>
          /\ updated_count + no_match_count + failed_count = Len(files)
          /\ no_match_count =
                 Cardinality({ i \in 1..Len(files) :
                                 ~files[i].has_num \/ ~files[i].in_master })

\* a run over three files, one of each outcome
C26_Witness ==
    /\ ppc = "saved" /\ Len(files) = 3
    /\ updated_count = 1 /\ no_match_count = 1 /\ failed_count = 1
    /\ \E i \in 1..3 : ~files[i].has_num

\* C27: a dry run leaves the master untouched: while the updater or the worker thread
\* runs with dry_run true, no hours, billed, N-to-V, AB or admin-fee cell of a master row
\* is written, the master is not saved and no backup is made, whatever the paysheets.
C27_DryRunFrame ==
    ((ppc # "idle" /\ dry_run) \/ (t_pc # "none" /\ t_dry)) =>
        /\ master_cells = {}
        /\ saved = "no"
        /\ ~backup_made

\* a dry run with both steps finished: a paysheet was processed (hourly row, AB pairs
\* given) and has an admin fee > 0
C27_Witness ==
    /\ t_pc = "finished" /\ t_dry /\ t_accrual /\ t_admin /\ dry_run
    /\ ppc = "saved" /\ updated_count >= 1 /\ row_hourly /\ ab_pairs
    /\ fee_idx = Len(files)
    /\ \E i \in 1..Len(files) :
          files[i].has_num /\ files[i].in_master /\ files[i].fails = "none" /\ t_fees[i] > 0

\* C29: once the thread is started and the Run button disabled, the button is
\* eventually enabled again, on every outcome of the worker.
C29_RunButtonReenabled == (t_pc # "none" /\ ~run_btn) ~> run_btn

\* C28: for a window of labels above the header whose dated entries are all effective on
\* day 1, with or without a static rate, and a period row inside a target month of 2025
\* or later, v17b (latest entry <= target (year, month), else static) and v18b
\* (start-date resolution with full-month override) apply the same rate to the row.
C28_GenerationsAgree ==
    (q18 # -1 /\ q17 # -1) => q18 = q17

\* static rate 50, an entry before the target month and one after it: both give 80
C28_Witness ==
    /\ q18 = 80 /\ q17 = 80 /\ q_target = <<6, 2025>> /\ q_row.start[2] = 16
    /\ \E i, j, k \in 1..Len(q_window) :
          /\ q_window[i] = StaticCell(50)
          /\ q_window[j] = EffCell(3, 1, 2025, 80)
          /\ q_window[k] = EffCell(7, 1, 2025, 100)

\* C30: after any sequence of load, add_profile, edit_profile (renames included),
\* delete_profile and set_current calls, also those that raise KeyError, `current` is
\* None or a key of `profiles`, and every key of `profiles` is the name of the profile
\* stored under it.
C30_ManagerInvariant ==
    /\ current = "None" \/ current \in Keys(profiles)
    /\ \A i \in 1..Len(profiles) : profiles[i].key = profiles[i].prof.name

\* add_profile has just raised KeyError for a name that is stored; two profiles are
\* stored and the current one is not the last stored
C30_Witness ==
    /\ km_last = "KeyError"
    /\ Len(profiles) = 2 /\ current = profiles[1].key

============================================================================
